---- MODULE Spec2Model ----
(***************************************************************************)
(* A model of the BAScraper fetch engine:                                  *)
(*   - AdaptiveRateLimiter (utils/limiter.py) and the workers that call    *)
(*     acquire() -> GET -> update() in ArcticShift._fetch_once,            *)
(*   - the segment arithmetic of BAScraper.get,                            *)
(*   - the window paginator ArcticShift._fetch_time_window,                *)
(*   - the comment fan-out ArcticShift._fetch_post_comments and the        *)
(*     sentinel hand-off of BAScraper.get,                                 *)
(*   - the duplicate resolution preprocess_json (BAScraper/utils.py),      *)
(*   - one get() followed through its segment paginators against a         *)
(*     provider holding a fixed list of records,                           *)
(*   - split_range (BAScraper/utils.py),                                   *)
(*   - BaseService.fetch_once, the retry loop around _fetch_once,          *)
(*   - BaseService._start_or_extend_cooldown and _cooldown_controller.     *)
(* Each component has its own specification; the variables of the other    *)
(* components are held at their idle value.                                *)
(***************************************************************************)
EXTENDS Integers, Sequences, FiniteSets, TLC

(***************************************************************************)
(* Bounds of the model                                                     *)
(***************************************************************************)
\* number of concurrent _fetch_once callers sharing one limiter
NumWorkers == 3
\* number of _fetch_once calls the callers may start in all
MaxCalls == 4
\* last tick of the monotonic clock (one tick = one second)
MaxTime == 2
\* requests the provider serves per rate-limit window
Quota == 3
\* length of the provider's rate-limit window, in ticks
Window == 2
\* largest `after` (epoch seconds) a request carries
MaxAfter == 3
\* largest before - after of a request
MaxSpan == 7
\* largest no_workers of a request
MaxSegWorkers == 4
\* largest created_utc (epoch seconds) of a record or a segment bound
MaxStamp == 2
\* largest number of records in one page
MaxPage == 1
\* page fetches after which a paginator is no longer followed
MaxFetches == 3
\* largest max_retries of a request
MaxRetries == 2
\* largest number of segment paginators of a get() with comment fan-out
MaxProducers == 2
\* largest no_sub_comment_workers
MaxCommentWorkers == 2
\* number of distinct parent (submission) ids
MaxParents == 1
\* largest number of entries a queue is pre-loaded with
MaxPreload == 3
\* number of records the provider holds for a get() without comment fan-out
MaxRecords == 3
\* longest list handed to preprocess_json
MaxLen == 4
\* number of distinct ids in such a list
MaxIds == 2
\* largest `after` of a get() followed through its paginators
MaxWinAfter == 1
\* largest before - after of such a get()
MaxWinSpan == 4
\* largest no_workers of such a get()
MaxWinWorkers == 2
\* largest page size (`limit`) of such a get()
MaxLimit == 2
\* largest number of records the provider holds for such a get()
MaxStore == 2
\* latest iso_low handed to split_range (seconds of local time)
MaxSplitLow == 2
\* largest iso_high - iso_low handed to split_range
MaxSplitLen == 5
\* largest n handed to split_range
MaxSplitN == 4
\* largest distance of the local timezone from UTC (model seconds)
MaxTz == 1
\* largest max_retries of a fetch_once followed through its attempts
MaxStop == 3
\* workers still running when the wait at the token gate is followed to its end
MaxGateCallers == 1
\* latest time (ticks) at which a 429 response is handled
MaxCoolTime == 2
\* largest cooldown (seconds) a 429 response asks for
MaxCoolSeconds == 2
\* calls of _start_or_extend_cooldown followed
MaxCoolCalls == 3

(***************************************************************************)
(* Program constants                                                       *)
(***************************************************************************)
\* self._tokens = None: the remaining count is unknown
None == -1
\* AdaptiveRateLimiter(safety_margin=1)
safety_margin == 1
\* max_pace_period: float = 60.0
max_pace_period == 60

VARIABLES
    \* ---- AdaptiveRateLimiter and its callers ----
    now,            \* time.monotonic(), in ticks
    tokens,         \* self._tokens (None or a count)
    reset_at,       \* self._reset_at
    pacers,         \* every AsyncLimiter(1, period) update() has created
    lpc,            \* caller -> position in _fetch_once
    lwait,          \* caller -> deadline of its wait_for(cv.wait())
    lnotified,      \* callers a notify_all() has woken and that did not run yet
    lpace,          \* caller -> the pacer it snapshot under the lock
    ltoken,         \* caller -> provider window of the token it reserved (None: passed unknown)
    lresp,          \* caller -> the response travelling back to it
    lcalls,         \* _fetch_once calls started so far
    prov_remaining, \* the provider's own remaining count for its window
    tok_window,     \* provider window of the report update() applied last
    gate_base,      \* tokens stored by the last update() (None while tokens are unknown)
    gate_passed,    \* callers let through the gate since that update()
    overspent,      \* a GET holding a token has met an exhausted provider
    cooldown_until, \* self._cooldown_until
    rate_limit_clear, \* the Event self.rate_limit_clear is set
    cooled_get,     \* a GET was issued before a cooldown had run out
    lskipped,       \* callers whose last response ended _fetch_once before limiter.update()
    \* ---- BAScraper.get: the request and its segments ----
    g_after,        \* v_settings.after (None: absent)
    g_before,       \* v_settings.before (None: absent)
    g_workers,      \* v_settings.no_workers
    g_pc,           \* position in get()
    segments,       \* the list `segments`
    \* ---- ArcticShift._fetch_time_window: one paginator ----
    p_after,        \* settings.after (end_time)
    p_before,       \* settings.before, rewritten with the cursor
    p_max_retries,  \* settings.max_retries
    p_pc,           \* position: new, loop, returned, partial, raised
    p_cursor,       \* cursor
    p_data,         \* data
    p_file,         \* temp_file: none, open, deleted
    p_dumps,        \* json.dump calls on temp_file
    p_fetches,      \* _fetch_once calls made
    p_pages,        \* the pages those calls returned, in order
    p_exc,          \* the exception that ended the paginator (none if none)
    \* ---- the comment fan-out: queue, producers, consumers, get() ----
    link_ids,       \* the asyncio.Queue link_ids (its entries, oldest first)
    unfinished,     \* link_ids._unfinished_tasks
    putlog,         \* every entry ever put on link_ids, in order
    no_segments,    \* len(segments): the number of segment paginators
    no_sub_comment_workers, \* settings.no_sub_comment_workers
    sub_pc,         \* paginator -> running, done, partial, raised, cancelled
    sub_data,       \* paginator -> the ids of the records it has accumulated
    produced,       \* parent ids handed out by the provider so far
    cw_pc,          \* comment worker -> get, fetch, done, raised, cancelled
    cw_id,          \* comment worker -> current_id
    cw_data,        \* comment worker -> data
    cw_file,        \* comment worker -> temp_file: open, deleted
    main_pc,        \* body of get(): none, gather, exit, returned, raised
    join_pc,        \* the task link_ids.join(): none, new, waiting, done, cancelled
    fanout,         \* v_settings.fetch_post_comments is set
    cw_exc,         \* comment worker -> the exception its tree fetch met (none if none)
    taken,          \* every link_ids.get() that returned: the place of the entry in putlog
    sub_exc,        \* paginator -> the exception its fetch met (none if none)
    merge_pc,       \* the tail of get() after the task group: none, done, KeyError
    m_keys,         \* keys of the dict `submissions`, in order
    m_comments,     \* key -> elem["comments"]
    \* ---- preprocess_json ----
    d_obj,          \* obj
    d_action,       \* service.duplicate_action
    d_pc,           \* position: loop, filter, returned
    d_i,            \* elements of obj the loop has taken
    d_keys,         \* keys of `indexed`, in insertion order
    d_indexed,      \* `indexed`
    d_call,         \* which call of preprocess_json on this list is running (0: none)
    d_given,        \* the list as the caller built it
    d_first,        \* what the first call returned
    \* ---- the segment paginators of one get() and the provider ----
    store,          \* the provider's records, newest first: record i -> created_utc
    limit,          \* settings.limit: the page size
    s_after,        \* settings object -> after (object 0 is v_settings)
    s_before,       \* settings object -> before
    w_settings,     \* paginator -> the settings object it was given
    w_pc,           \* paginator -> idle, new, loop, fetching, returned
    w_cursor,       \* paginator -> cursor
    w_end,          \* paginator -> end_time
    w_req,          \* paginator -> <<after, before>> of its last request
    w_data,         \* paginator -> data (ids of the records)
    w_map,          \* keys of the dict get() returns, in order
    \* ---- split_range ----
    sr_iso_low,     \* iso_low, as seconds of local time
    sr_iso_high,    \* iso_high
    sr_n,           \* n
    sr_tz,          \* UTC offset of the local timezone
    sr_pc,          \* position: new, loop, returned
    sr_size,        \* segment_size
    sr_remainder,   \* remainder
    sr_low,         \* current_low
    sr_i,           \* passes of the loop made
    sr_ranges,      \* ranges
    \* ---- fetch_once: _fetch_once under the retry decorator ----
    t_max_retries,  \* settings.max_retries
    t_pc,           \* position: new, attempt, sleep, returned, RetryError, raised
    t_attempts,     \* retry_state.attempt_number: calls of _fetch_once made
    t_errors,       \* the exceptions those calls raised, in order
    \* ---- BaseService: the cooldown controller ----
    cd_now,         \* loop.time(), in ticks
    cd_until,       \* self._cooldown_until
    cd_clear,       \* the Event self.rate_limit_clear is set
    cd_task,        \* self._cooldown_task: None or a task of cd_tasks
    cd_tasks,       \* every _cooldown_controller task created: position and wake-up time
    cd_calls        \* calls of _start_or_extend_cooldown made

limVars == <<now, tokens, reset_at, pacers, lpc, lwait, lnotified, lpace, ltoken,
             lresp, lcalls, prov_remaining, tok_window, gate_base, gate_passed,
             overspent, cooldown_until, rate_limit_clear, cooled_get, lskipped>>

\* the shared cooldown of BaseService
coolVars == <<cooldown_until, rate_limit_clear, cooled_get>>

segVars == <<g_after, g_before, g_workers, g_pc, segments>>

pagVars == <<p_after, p_before, p_max_retries, p_pc, p_cursor, p_data, p_file,
             p_dumps, p_fetches, p_pages, p_exc>>

fanVars == <<link_ids, unfinished, putlog, no_segments, no_sub_comment_workers,
             sub_pc, sub_data, produced, cw_pc, cw_id, cw_data, cw_file, main_pc,
             join_pc, fanout, taken, cw_exc, sub_exc, merge_pc, m_keys,
             m_comments>>

\* the result map of get(), which only the tail of get() writes
mapVars == <<merge_pc, m_keys, m_comments>>

dedVars == <<d_obj, d_action, d_pc, d_i, d_keys, d_indexed, d_call, d_given,
             d_first>>

winVars == <<store, limit, s_after, s_before, w_settings, w_pc, w_cursor, w_end,
             w_req, w_data, w_map>>

splitVars == <<sr_iso_low, sr_iso_high, sr_n, sr_tz, sr_pc, sr_size, sr_remainder,
               sr_low, sr_i, sr_ranges>>

tryVars == <<t_max_retries, t_pc, t_attempts, t_errors>>

ctlVars == <<cd_now, cd_until, cd_clear, cd_task, cd_tasks, cd_calls>>

vars == <<limVars, segVars, pagVars, fanVars, dedVars, winVars, splitVars, tryVars,
          ctlVars>>

\* what the actions of one component leave alone: the other components
outsideLim == <<segVars, pagVars, fanVars, dedVars, winVars, splitVars, tryVars, ctlVars>>
outsideSeg == <<limVars, pagVars, fanVars, dedVars, winVars, splitVars, tryVars, ctlVars>>
outsidePag == <<limVars, segVars, fanVars, dedVars, winVars, splitVars, tryVars, ctlVars>>
outsideFan == <<limVars, segVars, pagVars, dedVars, winVars, splitVars, tryVars, ctlVars>>
outsideDed == <<limVars, segVars, pagVars, fanVars, winVars, splitVars, tryVars, ctlVars>>
outsideWin == <<limVars, pagVars, fanVars, dedVars, splitVars, tryVars, ctlVars>>
outsideSplit == <<limVars, segVars, pagVars, fanVars, dedVars, winVars, tryVars, ctlVars>>
outsideTry == <<limVars, segVars, pagVars, fanVars, dedVars, winVars, splitVars, ctlVars>>
outsideCtl == <<limVars, segVars, pagVars, fanVars, dedVars, winVars, splitVars, tryVars>>

Max(a, b) == IF a >= b THEN a ELSE b
Min(a, b) == IF a <= b THEN a ELSE b

Workers == 1..NumWorkers

(***************************************************************************)
(* The provider (the far end of client.get): a fixed window of Window      *)
(* ticks with Quota requests; every answer carries X-RateLimit-Remaining   *)
(* and X-RateLimit-Reset (seconds to the end of the window).               *)
(***************************************************************************)
ProviderWindow(t) == t \div Window
ProviderResetIn(t) == (ProviderWindow(t) + 1) * Window - t

NoResp == [status |-> 0, remaining |-> 0, reset |-> 0, window |-> 0]

\* the pacer update() builds: AsyncLimiter(1, period), period = num / den seconds
NewPacer(effective, reset_seconds) ==
    IF effective <= 0
    THEN [num |-> Min(max_pace_period, Max(1, reset_seconds)), den |-> 1, last |-> None]
    ELSE IF reset_seconds > max_pace_period * Max(1, effective)
         THEN [num |-> max_pace_period, den |-> 1, last |-> None]
         ELSE [num |-> reset_seconds, den |-> Max(1, effective), last |-> None]

\* AsyncLimiter(1, period).has_capacity(): the bucket has leaked its one unit.
\* Pacer 0 is the initial AsyncLimiter(1000, 1), which the callers of this
\* model (fewer than 1000 acquisitions) never fill.
\* an AsyncLimiter no caller holds any more (garbage)
DeadPacer == [num |-> 0, den |-> 1, last |-> None]

\* the pacers with every one that is neither self._pace (when `keep`) nor the
\* snapshot of a caller of `holders` replaced by DeadPacer
Collect(ps, keep, holders) ==
    [k \in 1..Len(ps) |->
        IF (keep /\ k = Len(ps)) \/ (\E v \in holders : lpace[v] = k)
        THEN ps[k] ELSE DeadPacer]

\* a pacer that always has capacity
PacerFreeNot(k) == TRUE

PacerFree(k) ==
    IF k = 0 THEN TRUE
    ELSE IF pacers[k].last = None THEN TRUE
    ELSE (now - pacers[k].last) * pacers[k].den >= pacers[k].num

\* self._cooldown_until = max(self._cooldown_until, loop.time() + max(0.0, seconds))
ExtendCooldown(until, t, seconds) == Max(until, t + Max(0, seconds))

\* the cooldown has not run out at time t
InCooldown(t, until) == t < until

LimInit ==
    /\ now = 0
    /\ tokens = None
    /\ reset_at = 0
    /\ pacers = <<>>
    /\ lpc = [w \in Workers |-> "idle"]
    /\ lwait = [w \in Workers |-> 0]
    /\ lnotified = {}
    /\ lpace = [w \in Workers |-> 0]
    /\ ltoken = [w \in Workers |-> None]
    /\ lresp = [w \in Workers |-> NoResp]
    /\ lcalls = 0
    /\ prov_remaining = Quota
    /\ tok_window = None
    /\ gate_base = None
    /\ gate_passed = 0
    /\ overspent = FALSE
    /\ cooldown_until = 0
    /\ rate_limit_clear = TRUE
    /\ cooled_get = FALSE
    /\ lskipped = {}

\* the same start when other traffic from this address has already used a
\* part of the provider's window
CoolInit ==
    /\ now = 0
    /\ tokens = None
    /\ reset_at = 0
    /\ pacers = <<>>
    /\ lpc = [w \in Workers |-> "idle"]
    /\ lwait = [w \in Workers |-> 0]
    /\ lnotified = {}
    /\ lpace = [w \in Workers |-> 0]
    /\ ltoken = [w \in Workers |-> None]
    /\ lresp = [w \in Workers |-> NoResp]
    /\ lcalls = 0
    /\ prov_remaining \in 0..Quota
    /\ tok_window = None
    /\ gate_base = None
    /\ gate_passed = 0
    /\ overspent = FALSE
    /\ cooldown_until = 0
    /\ rate_limit_clear = TRUE
    /\ cooled_get = FALSE
    /\ lskipped = {}

\* late in a run: all but MaxGateCallers of the worker tasks have returned
\* and call acquire() no more; other traffic from this address may have used
\* a part of the provider's window
GateInit ==
    /\ now = 0
    /\ tokens = None
    /\ reset_at = 0
    /\ pacers = <<>>
    /\ lpc = [w \in Workers |-> IF w <= MaxGateCallers THEN "idle" ELSE "returned"]
    /\ lwait = [w \in Workers |-> 0]
    /\ lnotified = {}
    /\ lpace = [w \in Workers |-> 0]
    /\ ltoken = [w \in Workers |-> None]
    /\ lresp = [w \in Workers |-> NoResp]
    /\ lcalls = 0
    /\ prov_remaining \in 0..Quota
    /\ tok_window = None
    /\ gate_base = None
    /\ gate_passed = 0
    /\ overspent = FALSE
    /\ cooldown_until = 0
    /\ rate_limit_clear = TRUE
    /\ cooled_get = FALSE
    /\ lskipped = {}

\* a gate that lets the caller through without taking its token
ReserveTokenNot(t) == t

\* the token count after one caller took a token at the gate (self._tokens -= 1)
ReserveToken(t) == t - 1

\* the gate's test for "a token is available" (if self._tokens > 0)
TokenAvailable(t) == t > 0

(***************************************************************************)
(* acquire(), part 1: one pass of the `while True` loop under the lock.    *)
(* Runs when a caller enters acquire() and again whenever its              *)
(* wait_for(cv.wait(), timeout) returns (notify_all or timeout).           *)
\* a reset test that lets the deadline itself count as not reached
ResetPassedNot(t, deadline) == t > deadline

\* the gate's test for "we've passed reset" (now >= self._reset_at)
ResetPassed(t, deadline) == t >= deadline

(***************************************************************************)
GateLoop(w) ==
    LET expired == tokens # None /\ ResetPassed(now, reset_at)
        tk == IF expired THEN None ELSE tokens
    IN  /\ lnotified' = lnotified \ {w}
        /\ IF tk = None
           THEN \* tokens unknown (or just cleared at the deadline): do not block
                /\ tokens' = None
                /\ lpc' = [lpc EXCEPT ![w] = "pace"]
                /\ lpace' = [lpace EXCEPT ![w] = Len(pacers)]
                /\ ltoken' = [ltoken EXCEPT ![w] = None]
                /\ lwait' = [lwait EXCEPT ![w] = 0]
                /\ gate_base' = None
                /\ gate_passed' = 0
           ELSE IF TokenAvailable(tk)
           THEN \* reserve one token and proceed
                /\ tokens' = ReserveToken(tk)
                /\ lpc' = [lpc EXCEPT ![w] = "pace"]
                /\ lpace' = [lpace EXCEPT ![w] = Len(pacers)]
                /\ ltoken' = [ltoken EXCEPT ![w] = tok_window]
                /\ lwait' = [lwait EXCEPT ![w] = 0]
                /\ gate_passed' = gate_passed + 1
                /\ UNCHANGED gate_base
           ELSE \* tokens == 0 and reset not reached: wait until reset
                /\ tokens' = tk
                /\ lpc' = [lpc EXCEPT ![w] = "waiting"]
                /\ lwait' = [lwait EXCEPT ![w] = reset_at]
                /\ UNCHANGED <<lpace, ltoken, gate_base, gate_passed>>
        /\ UNCHANGED <<now, reset_at, pacers, lresp, prov_remaining, tok_window,
                       overspent>>
        /\ UNCHANGED coolVars
        /\ UNCHANGED lskipped
    /\ UNCHANGED outsideLim

\* a caller starts _fetch_once and enters acquire()
Acquire(w) ==
    /\ lpc[w] = "idle"
    /\ lcalls < MaxCalls
    /\ lcalls' = lcalls + 1
    /\ GateLoop(w)

\* a wait without a timeout: only a notify_all() ends it
WaitReturnsNot(w) == w \in lnotified

\* wait_for(cv.wait(), timeout=sleep_for) is over: notified, or timed out
WaitReturns(w) == w \in lnotified \/ now >= lwait[w]

\* wait_for(cv.wait(), timeout=sleep_for) returns and the loop runs again
WakeUp(w) ==
    /\ lpc[w] = "waiting"
    /\ WaitReturns(w)
    /\ UNCHANGED lcalls
    /\ GateLoop(w)

(***************************************************************************)
(* acquire(), part 2: await pace.acquire() on the snapshot pacer, after     *)
(* which _fetch_once sends the GET.                                         *)
(***************************************************************************)
PaceAcquire(w) ==
    /\ lpc[w] = "pace"
    /\ PacerFree(lpace[w])
    /\ pacers' = IF lpace[w] = 0 THEN pacers
                 ELSE Collect([pacers EXCEPT ![lpace[w]].last = now], TRUE,
                              {v \in Workers \ {w} : lpc[v] = "pace"})
    /\ lpc' = [lpc EXCEPT ![w] = "sent"]
    /\ lpace' = [lpace EXCEPT ![w] = 0]
    /\ UNCHANGED <<now, tokens, reset_at, lwait, lnotified, ltoken, lresp,
                   lcalls, prov_remaining, tok_window, gate_base, gate_passed,
                   overspent>>
    /\ cooled_get' = (cooled_get \/ InCooldown(now, cooldown_until))
    /\ UNCHANGED <<cooldown_until, rate_limit_clear, lskipped>>
    /\ UNCHANGED outsideLim

(***************************************************************************)
(* The provider receives the GET of caller w and answers: 200 with the     *)
(* rate-limit headers, or 429 when its window is used up.                  *)
(***************************************************************************)
ProviderReceive(w) ==
    /\ lpc[w] = "sent"
    /\ lpc' = [lpc EXCEPT ![w] = "inflight"]
    /\ IF prov_remaining > 0
       THEN /\ prov_remaining' = prov_remaining - 1
            /\ lresp' = [lresp EXCEPT ![w] =
                            [status |-> 200, remaining |-> prov_remaining - 1,
                             reset |-> ProviderResetIn(now),
                             window |-> ProviderWindow(now)]]
            /\ UNCHANGED overspent
       ELSE /\ lresp' = [lresp EXCEPT ![w] =
                            [status |-> 429, remaining |-> 0,
                             reset |-> ProviderResetIn(now),
                             window |-> ProviderWindow(now)]]
            /\ overspent' = (overspent \/ ltoken[w] = ProviderWindow(now))
            /\ UNCHANGED prov_remaining
    /\ ltoken' = [ltoken EXCEPT ![w] = None]
    /\ UNCHANGED <<now, tokens, reset_at, pacers, lwait, lnotified, lpace,
                   lcalls, tok_window, gate_base, gate_passed>>
    /\ UNCHANGED coolVars
    /\ UNCHANGED lskipped
    /\ UNCHANGED outsideLim

\* effective = max(0, remaining - self._safety_margin)
Effective(remaining) == Max(0, remaining - safety_margin)

(***************************************************************************)
(* update(remaining, reset_seconds), called by _fetch_once on a 200.       *)
(***************************************************************************)
Update(remaining, reset_seconds, window) ==
    /\ tokens' = Effective(remaining)
    /\ reset_at' = now + reset_seconds
    /\ pacers' = Append(Collect(pacers, FALSE, {v \in Workers : lpc[v] = "pace"}),
                        NewPacer(Effective(remaining), reset_seconds))
    /\ lnotified' = {v \in Workers : lpc[v] = "waiting"}
    /\ tok_window' = window
    /\ gate_base' = Effective(remaining)
    /\ gate_passed' = 0

\* the 200 reaches its caller: response_code_handler passes, update() runs
Respond200(w) ==
    /\ lpc[w] = "inflight"
    /\ lresp[w].status = 200
    /\ Update(lresp[w].remaining, lresp[w].reset, lresp[w].window)
    /\ lpc' = [lpc EXCEPT ![w] = "idle"]
    /\ lresp' = [lresp EXCEPT ![w] = NoResp]
    /\ UNCHANGED <<now, lwait, lpace, ltoken, lcalls, prov_remaining, overspent>>
    /\ lskipped' = lskipped \ {w}
    /\ UNCHANGED coolVars
    /\ UNCHANGED outsideLim

\* the 429 reaches its caller: response_code_handler raises RateLimitRetry,
\* _fetch_once ends without calling update()
Respond429(w) ==
    /\ lpc[w] = "inflight"
    /\ lresp[w].status = 429
    /\ lpc' = [lpc EXCEPT ![w] = "idle"]
    /\ lresp' = [lresp EXCEPT ![w] = NoResp]
    /\ UNCHANGED <<now, tokens, reset_at, pacers, lwait, lnotified, lpace, ltoken,
                   lcalls, prov_remaining, tok_window, gate_base, gate_passed,
                   overspent>>
    /\ cooldown_until' = ExtendCooldown(cooldown_until, now, lresp[w].reset)
    /\ rate_limit_clear' = FALSE
    /\ lskipped' = lskipped \cup {w}
    /\ UNCHANGED cooled_get
    /\ UNCHANGED outsideLim

\* _cooldown_controller: its sleep is over and no later deadline was set:
\* self.rate_limit_clear.set()
CooldownOver ==
    /\ ~rate_limit_clear
    /\ now >= cooldown_until
    /\ rate_limit_clear' = TRUE
    /\ UNCHANGED <<cooldown_until, cooled_get, lskipped>>
    /\ UNCHANGED <<now, tokens, reset_at, pacers, lpc, lwait, lnotified, lpace, ltoken,
                   lresp, lcalls, prov_remaining, tok_window, gate_base, gate_passed,
                   overspent>>
    /\ UNCHANGED outsideLim

\* the clock advances; the provider opens a new window at its boundary
Tick ==
    /\ now < MaxTime
    /\ now' = now + 1
    /\ prov_remaining' = IF ProviderWindow(now + 1) # ProviderWindow(now)
                         THEN Quota ELSE prov_remaining
    /\ UNCHANGED <<tokens, reset_at, pacers, lpc, lwait, lnotified, lpace, ltoken,
                   lresp, lcalls, tok_window, gate_base, gate_passed, overspent>>
    /\ UNCHANGED coolVars
    /\ UNCHANGED lskipped
    /\ UNCHANGED outsideLim

\* past the horizon MaxTime the clock is followed only as long as a caller
\* waits at the gate for a deadline that lies ahead
ClockRuns ==
    /\ now >= MaxTime
    /\ \E w \in Workers : lpc[w] = "waiting" /\ now < lwait[w]
    /\ now' = now + 1
    /\ prov_remaining' = IF ProviderWindow(now + 1) # ProviderWindow(now)
                         THEN Quota ELSE prov_remaining
    /\ UNCHANGED <<tokens, reset_at, pacers, lpc, lwait, lnotified, lpace, ltoken,
                   lresp, lcalls, tok_window, gate_base, gate_passed, overspent>>
    /\ UNCHANGED coolVars
    /\ UNCHANGED lskipped
    /\ UNCHANGED outsideLim

LimNext ==
    \/ \E w \in Workers : Acquire(w)
    \/ \E w \in Workers : WakeUp(w)
    \/ \E w \in Workers : PaceAcquire(w)
    \/ \E w \in Workers : ProviderReceive(w)
    \/ \E w \in Workers : Respond200(w)
    \/ \E w \in Workers : Respond429(w)
    \/ CooldownOver
    \/ Tick

\* the limiter with a clock that runs on to every deadline a caller waits for
LimClockNext ==
    \/ LimNext
    \/ ClockRuns

(***************************************************************************)
(* BAScraper.get: the choice of path and the time segments                 *)
(***************************************************************************)

\* Python truthiness of an optional int: None and 0 are false
Truthy(x) == x # None /\ x # 0

\* math.ceil(a / b) for b > 0
CeilDiv(a, b) == -((-a) \div b)

\* math.ceil(after + s * segment_duration), segment_duration = (before - after) / n
Boundary(after, before, n, s) == after + CeilDiv(s * (before - after), n)

\* the s-th element of the list comprehension (s = 0 .. no_workers - 1)
Segment(after, before, n, s) ==
    <<Boundary(after, before, n, s), Boundary(after, before, n, s + 1) - 1>>

\* the final end time left as the comprehension computed it
ClampLastNot(segs, before) == segs

\* segments[-1][-1] = v_settings.before
ClampLast(segs, before) ==
    [segs EXCEPT ![Len(segs)] = <<segs[Len(segs)][1], before>>]

\* the validated requests: validate_temporal_order rejects after >= before
\* when both are integers (0 included) and lets a missing bound through
SegInit ==
    /\ g_after \in {None} \cup (0..MaxAfter)
    /\ g_before \in {None} \cup (0..(MaxAfter + MaxSpan))
    /\ (g_after # None /\ g_before # None) =>
          (g_after < g_before /\ g_before - g_after <= MaxSpan)
    /\ g_workers \in 1..MaxSegWorkers
    /\ g_pc = "start"
    /\ segments = <<>>

SegIdle ==
    /\ g_after = None
    /\ g_before = None
    /\ g_workers = 1
    /\ g_pc = "start"
    /\ segments = <<>>

\* if v_settings.after and v_settings.before: ... else: ...
ChoosePath ==
    /\ g_pc = "start"
    /\ g_pc' = IF Truthy(g_after) /\ Truthy(g_before) THEN "build" ELSE "single"
    /\ UNCHANGED <<g_after, g_before, g_workers, segments>>
    /\ UNCHANGED outsideSeg

\* one element of the list comprehension over range(no_workers)
BuildSegment ==
    /\ g_pc = "build"
    /\ Len(segments) < g_workers
    /\ segments' = Append(segments, Segment(g_after, g_before, g_workers, Len(segments)))
    /\ UNCHANGED <<g_after, g_before, g_workers, g_pc>>
    /\ UNCHANGED outsideSeg

\* clamping the final end time to be exactly `before`
ClampSegments ==
    /\ g_pc = "build"
    /\ Len(segments) = g_workers
    /\ segments' = ClampLast(segments, g_before)
    /\ g_pc' = "segmented"
    /\ UNCHANGED <<g_after, g_before, g_workers>>
    /\ UNCHANGED outsideSeg

\* no time range: one fetch_once call, no worker task
SinglePage ==
    /\ g_pc = "single"
    /\ g_pc' = "single_done"
    /\ UNCHANGED <<g_after, g_before, g_workers, segments>>
    /\ UNCHANGED outsideSeg

SegNext ==
    \/ ChoosePath
    \/ BuildSegment
    \/ ClampSegments
    \/ SinglePage

(***************************************************************************)
(* ArcticShift._fetch_time_window: cursor pagination over one segment.     *)
(* The page fetcher (_fetch_once) is a stub here: each call returns some   *)
(* page of records or raises.                                              *)
(***************************************************************************)
Stamps == 0..MaxStamp

\* a record as far as the paginator reads it: int(record['created_utc'])
Pages == UNION {[1..n -> Stamps] : n \in 0..MaxPage}

\* what _fetch_once can raise inside operation(): the retryable exceptions
\* (httpx.NetworkError, httpx.TimeoutException, RateLimitRetry), a
\* KeyboardInterrupt, the task's cancellation, or any other error
FetchErrors == {"Retryable", "KeyboardInterrupt", "CancelledError", "Fatal"}

\* response_exception_handler: the except clause an exception of op() meets
HandlerFor(exc) ==
    CASE exc = "Retryable" -> "on_retryable"
      [] exc = "RetryError" -> "on_terminal_retryable"
      [] exc = "KeyboardInterrupt" -> "on_cancel"
      [] OTHER -> "propagate"

\* if result_count <= 0: break
PageEndsLoop(page) == Len(page) <= 0

\* the page put in front of the records gathered so far
AddPageInFront(data, page) == page \o data

\* data += resp_json
AddPage(data, page) == data \o page

\* cursor = int(resp_json[-1]['created_utc'])
NextCursor(page) == page[Len(page)]

\* temp_file after on_retryable ran: self.cleanup_tempfile(temp_file)
FileAfterRetryable(file) == "deleted"

PagInit ==
    /\ p_after \in Stamps
    /\ p_before \in Stamps
    /\ p_max_retries \in 0..MaxRetries
    /\ p_pc = "new"
    /\ p_cursor = 0
    /\ p_data = <<>>
    /\ p_file = "none"
    /\ p_dumps = 0
    /\ p_fetches = 0
    /\ p_pages = <<>>
    /\ p_exc = "none"

PagIdle ==
    /\ p_after = 0
    /\ p_before = 0
    /\ p_max_retries = 0
    /\ p_pc = "new"
    /\ p_cursor = 0
    /\ p_data = <<>>
    /\ p_file = "none"
    /\ p_dumps = 0
    /\ p_fetches = 0
    /\ p_pages = <<>>
    /\ p_exc = "none"

\* cursor = settings.before; temp_file = self.create_tempfile(...); data = list()
PagStart ==
    /\ p_pc = "new"
    /\ p_pc' = "loop"
    /\ p_cursor' = p_before
    /\ p_file' = "open"
    /\ p_data' = <<>>
    /\ UNCHANGED <<p_after, p_before, p_max_retries, p_dumps, p_fetches, p_pages, p_exc>>
    /\ UNCHANGED outsidePag

\* one pass of `while cursor > end_time` in which _fetch_once returns a page
PagFetchPage ==
    /\ p_pc = "loop"
    /\ p_cursor > p_after
    /\ p_fetches < MaxFetches
    /\ \E page \in Pages :
        /\ p_before' = p_cursor
        /\ p_fetches' = p_fetches + 1
        /\ p_pages' = Append(p_pages, page)
        /\ IF PageEndsLoop(page)
           THEN \* break; self.cleanup_tempfile(temp_file); return data
                /\ p_pc' = "returned"
                /\ p_file' = "deleted"
                /\ UNCHANGED <<p_cursor, p_data, p_dumps>>
           ELSE /\ p_cursor' = NextCursor(page)
                /\ p_data' = AddPage(p_data, page)
                /\ p_dumps' = p_dumps + 1
                /\ UNCHANGED <<p_pc, p_file>>
    /\ UNCHANGED <<p_after, p_max_retries, p_exc>>
    /\ UNCHANGED outsidePag

\* the loop condition fails: self.cleanup_tempfile(temp_file); return data
PagLoopEnd ==
    /\ p_pc = "loop"
    /\ p_cursor <= p_after
    /\ p_pc' = "returned"
    /\ p_file' = "deleted"
    /\ UNCHANGED <<p_after, p_before, p_max_retries, p_cursor, p_data, p_dumps,
                   p_fetches, p_pages, p_exc>>
    /\ UNCHANGED outsidePag

\* one pass of the loop in which _fetch_once raises: the exception leaves
\* operation() and response_exception_handler dispatches it
PagFetchRaises ==
    /\ p_pc = "loop"
    /\ p_cursor > p_after
    /\ p_fetches < MaxFetches
    /\ \E exc \in FetchErrors :
        /\ p_before' = p_cursor
        /\ p_fetches' = p_fetches + 1
        /\ p_exc' = exc
        /\ CASE HandlerFor(exc) = "on_retryable" ->
                    \* self.cleanup_tempfile(temp_file); raise err
                    /\ p_file' = FileAfterRetryable(p_file)
                    /\ p_pc' = "raised"
               [] HandlerFor(exc) = "on_terminal_retryable" ->
                    \* return data (tempfile will not be closed)
                    /\ p_pc' = "partial"
                    /\ UNCHANGED p_file
               [] HandlerFor(exc) = "on_cancel" ->
                    \* return data (tempfile will not be closed)
                    /\ p_pc' = "partial"
                    /\ UNCHANGED p_file
               [] OTHER ->
                    /\ p_pc' = "raised"
                    /\ UNCHANGED p_file
    /\ UNCHANGED <<p_after, p_max_retries, p_cursor, p_data, p_dumps, p_pages>>
    /\ UNCHANGED outsidePag

PagNext ==
    \/ PagStart
    \/ PagFetchPage
    \/ PagLoopEnd
    \/ PagFetchRaises

(***************************************************************************)
(* The comment fan-out.  Segment paginators (producers) put the id of      *)
(* every record they fetch on the queue link_ids; comment workers          *)
(* (_fetch_post_comments) take entries off it and fetch one comment tree   *)
(* per id; the body of get() waits for the paginators and then puts one    *)
(* END per comment worker.  Tasks run on one event loop: the code between  *)
(* two awaits that suspend is one step.  put() on the unbounded queue      *)
(* never suspends.                                                         *)
(***************************************************************************)
\* END = '<END>'
END == 0

ParentIds == 1..MaxParents

\* tasks["submissions"] and tasks["comment_trees"]
Producers == 1..no_segments
CommentWorkers == 1..no_sub_comment_workers

\* a queue filled before the workers start
Preloads == UNION {[1..k -> ParentIds \cup {END}] : k \in 0..MaxPreload}

\* the pages the provider can answer with: records not handed out before,
\* each modelled by its id
FreshPages(done) == {[i \in 1..k |-> done + i] : k \in 1..(MaxParents - done)}

\* the same for a get() without comment fan-out
FreshRecords(done) == {[i \in 1..k |-> done + i] : k \in 1..(MaxRecords - done)}

PagesOf(with_comments, done) ==
    IF with_comments THEN FreshPages(done) ELSE FreshRecords(done)

\* if settings.fetch_post_comments: for elem in resp_json: await link_ids.put(elem['id'])
Enqueued(with_comments, page) == IF with_comments THEN page ELSE <<>>

\* the comment tree of a submission: a list of comments, each modelled by
\* the submission it links to; the list may be empty
Trees(id) == {<<>>, <<id>>}

\* the exceptions a fetch raises by itself (a cancellation comes from outside)
RaisedByFetch == FetchErrors \ {"CancelledError"}

\* no entry is a sentinel
IsSentinelNever(item) == FALSE

\* if current_id == END
IsSentinel(item) == item = END

\* for _ in range(no_sub_comment_workers): await link_id_queue.put(END)
Sentinels(n) == [i \in 1..n |-> END]

\* Queue.task_done()
TaskDone(u) == u - 1

\* Queue.join(): task_done() sets _finished when the count reaches zero and
\* the joiner waiting for it returns
JoinAfterTaskDone(j, u) == IF j = "waiting" /\ u = 0 THEN "done" ELSE j

\* a paginator task that returned a list
Finished(pc) == pc \in {"done", "partial"}

\* some paginator has returned
GatherAny(pcs) == \E n \in DOMAIN pcs : Finished(pcs[n])

\* await asyncio.gather(*tasks["submissions"]) returns
GatherDone(pcs) == \A n \in DOMAIN pcs : Finished(pcs[n])

\* the entry is read and left at the head of the queue
DequeueNot(q) == q

\* Queue.get(): self._queue.popleft()
Dequeue(q) == Tail(q)

\* the place, among all entries ever put, of the entry at the head of the queue
HeadPlace(log, q) == Len(log) - Len(q) + 1

\* no task is cancelled
CancelTasksNot(pcs, live) == pcs

\* TaskGroup._abort(): every task of the group still running is cancelled;
\* none of them catches CancelledError
CancelTasks(pcs, live) ==
    [t \in DOMAIN pcs |-> IF pcs[t] \in live THEN "cancelled" ELSE pcs[t]]

\* the queue is not in use
FanIdle ==
    /\ link_ids = <<>>
    /\ unfinished = 0
    /\ putlog = <<>>
    /\ no_segments = 0
    /\ no_sub_comment_workers = 0
    /\ sub_pc = <<>>
    /\ sub_data = <<>>
    /\ produced = 0
    /\ cw_pc = <<>>
    /\ cw_exc = <<>>
    /\ cw_id = <<>>
    /\ cw_data = <<>>
    /\ cw_file = <<>>
    /\ main_pc = "none"
    /\ join_pc = "none"
    /\ fanout = FALSE
    /\ taken = <<>>
    /\ sub_exc = <<>>
    /\ merge_pc = "none"
    /\ m_keys = <<>>
    /\ m_comments = <<>>

\* fetch_post_comments called on its own: M workers on a pre-loaded queue
FanoutInit ==
    /\ link_ids \in Preloads
    /\ unfinished = Len(link_ids)
    /\ putlog = link_ids
    /\ no_segments = 0
    /\ no_sub_comment_workers \in 1..MaxCommentWorkers
    /\ sub_pc = <<>>
    /\ sub_data = <<>>
    /\ produced = 0
    /\ cw_pc = [m \in CommentWorkers |-> "get"]
    /\ cw_exc = [m \in CommentWorkers |-> "none"]
    /\ cw_id = [m \in CommentWorkers |-> END]
    /\ cw_data = [m \in CommentWorkers |-> <<>>]
    /\ cw_file = [m \in CommentWorkers |-> "open"]
    /\ main_pc = "none"
    /\ join_pc = "none"
    /\ fanout = TRUE
    /\ taken = <<>>
    /\ sub_exc = <<>>
    /\ merge_pc = "none"
    /\ m_keys = <<>>
    /\ m_comments = <<>>

\* get() with fetch_post_comments after _schedule_workers: N paginators,
\* M comment workers and the join task created, the body at gather()
GetInit ==
    /\ link_ids = <<>>
    /\ unfinished = 0
    /\ putlog = <<>>
    /\ no_segments \in 1..MaxProducers
    /\ no_sub_comment_workers \in 1..MaxCommentWorkers
    /\ sub_pc = [n \in Producers |-> "running"]
    /\ sub_data = [n \in Producers |-> <<>>]
    /\ produced = 0
    /\ cw_pc = [m \in CommentWorkers |-> "get"]
    /\ cw_exc = [m \in CommentWorkers |-> "none"]
    /\ cw_id = [m \in CommentWorkers |-> END]
    /\ cw_data = [m \in CommentWorkers |-> <<>>]
    /\ cw_file = [m \in CommentWorkers |-> "open"]
    /\ main_pc = "gather"
    /\ join_pc = "new"
    /\ fanout = TRUE
    /\ taken = <<>>
    /\ sub_exc = [n \in Producers |-> "none"]
    /\ merge_pc = "none"
    /\ m_keys = <<>>
    /\ m_comments = <<>>

\* get() without fetch_post_comments after _schedule_workers: N paginators
\* and nothing else; the body of the `async with` is over
GetPlainInit ==
    /\ link_ids = <<>>
    /\ unfinished = 0
    /\ putlog = <<>>
    /\ no_segments \in 1..MaxProducers
    /\ no_sub_comment_workers = 0
    /\ sub_pc = [n \in Producers |-> "running"]
    /\ sub_data = [n \in Producers |-> <<>>]
    /\ produced = 0
    /\ cw_pc = <<>>
    /\ cw_exc = <<>>
    /\ cw_id = <<>>
    /\ cw_data = <<>>
    /\ cw_file = <<>>
    /\ main_pc = "exit"
    /\ join_pc = "none"
    /\ fanout = FALSE
    /\ taken = <<>>
    /\ sub_exc = [n \in Producers |-> "none"]
    /\ merge_pc = "none"
    /\ m_keys = <<>>
    /\ m_comments = <<>>

\* a task of the group ends with an exception: the TaskGroup cancels the
\* tasks still running and the body of get(); `subs` and `cws` are the
\* positions after the failing task has stopped
GroupAbort(subs, cws) ==
    /\ sub_pc' = CancelTasks(subs, {"running"})
    /\ cw_pc' = CancelTasks(cws, {"get", "fetch"})
    /\ join_pc' = IF join_pc \in {"new", "waiting"} THEN "cancelled" ELSE join_pc
    /\ main_pc' = "raised"

\* one pass of a paginator's loop: _fetch_once returns a page that is not
\* empty and has put the id of each of its records on the queue
SubFetchPage(n) ==
    /\ n \in Producers
    /\ sub_pc[n] = "running"
    /\ \E page \in PagesOf(fanout, produced) :
        /\ link_ids' = link_ids \o Enqueued(fanout, page)
        /\ unfinished' = unfinished + Len(Enqueued(fanout, page))
        /\ putlog' = putlog \o Enqueued(fanout, page)
        /\ produced' = produced + Len(page)
        /\ sub_data' = [sub_data EXCEPT ![n] = AddPage(@, page)]
    /\ UNCHANGED <<no_segments, no_sub_comment_workers, sub_pc, cw_pc, cw_id,
                   cw_data, cw_file, main_pc, join_pc>>
    /\ UNCHANGED <<fanout, taken, cw_exc, sub_exc, mapVars>>
    /\ UNCHANGED outsideFan

\* the paginator's loop ends (an empty page, or the cursor reached end_time):
\* cleanup_tempfile; return data
SubFinish(n) ==
    /\ n \in Producers
    /\ sub_pc[n] = "running"
    /\ sub_pc' = [sub_pc EXCEPT ![n] = "done"]
    /\ UNCHANGED <<link_ids, unfinished, putlog, no_segments, no_sub_comment_workers,
                   sub_data, produced, cw_pc, cw_id, cw_data, cw_file, main_pc,
                   join_pc>>
    /\ UNCHANGED <<fanout, taken, cw_exc, sub_exc, mapVars>>
    /\ UNCHANGED outsideFan

\* _fetch_once raises in a paginator: on_cancel returns the data, any other
\* exception leaves the task and aborts the group
SubRaises(n) ==
    /\ n \in Producers
    /\ sub_pc[n] = "running"
    /\ \E exc \in RaisedByFetch :
        /\ sub_exc' = [sub_exc EXCEPT ![n] = exc]
        /\ IF HandlerFor(exc) \in {"on_terminal_retryable", "on_cancel"}
           THEN /\ sub_pc' = [sub_pc EXCEPT ![n] = "partial"]
                /\ UNCHANGED <<cw_pc, join_pc, main_pc>>
           ELSE GroupAbort([sub_pc EXCEPT ![n] = "raised"], cw_pc)
    /\ UNCHANGED <<link_ids, unfinished, putlog, no_segments, no_sub_comment_workers,
                   sub_data, produced, cw_id, cw_data, cw_file>>
    /\ UNCHANGED <<fanout, taken, cw_exc, mapVars>>
    /\ UNCHANGED outsideFan

\* current_id = await link_ids.get(), then either the sentinel branch
\* (task_done, cleanup_tempfile, return data) or the start of the tree fetch
CwGet(m) ==
    /\ m \in CommentWorkers
    /\ cw_pc[m] = "get"
    /\ link_ids # <<>>
    /\ link_ids' = Dequeue(link_ids)
    /\ taken' = Append(taken, HeadPlace(putlog, link_ids))
    /\ IF IsSentinel(Head(link_ids))
       THEN /\ unfinished' = TaskDone(unfinished)
            /\ join_pc' = JoinAfterTaskDone(join_pc, unfinished')
            /\ cw_file' = [cw_file EXCEPT ![m] = "deleted"]
            /\ cw_pc' = [cw_pc EXCEPT ![m] = "done"]
            /\ UNCHANGED cw_id
       ELSE /\ cw_id' = [cw_id EXCEPT ![m] = Head(link_ids)]
            /\ cw_pc' = [cw_pc EXCEPT ![m] = "fetch"]
            /\ UNCHANGED <<unfinished, join_pc, cw_file>>
    /\ UNCHANGED <<putlog, no_segments, no_sub_comment_workers, sub_pc, sub_data,
                   produced, cw_data, main_pc>>
    /\ UNCHANGED <<fanout, cw_exc, sub_exc, mapVars>>
    /\ UNCHANGED outsideFan

\* get_comment_tree returns: data += tree; link_ids.task_done()
CwFetched(m) ==
    /\ m \in CommentWorkers
    /\ cw_pc[m] = "fetch"
    /\ \E tree \in Trees(cw_id[m]) :
        cw_data' = [cw_data EXCEPT ![m] = @ \o tree]
    /\ unfinished' = TaskDone(unfinished)
    /\ join_pc' = JoinAfterTaskDone(join_pc, unfinished')
    /\ cw_pc' = [cw_pc EXCEPT ![m] = "get"]
    /\ UNCHANGED <<link_ids, putlog, no_segments, no_sub_comment_workers, sub_pc,
                   sub_data, produced, cw_id, cw_file, main_pc>>
    /\ UNCHANGED <<fanout, taken, cw_exc, sub_exc, mapVars>>
    /\ UNCHANGED outsideFan

\* get_comment_tree raises: on_retryable deletes the temp file and re-raises,
\* on_cancel re-raises, anything else propagates; the worker task ends with
\* the exception and, inside get(), the group is aborted
CwFetchRaises(m) ==
    /\ m \in CommentWorkers
    /\ cw_pc[m] = "fetch"
    /\ \E exc \in RaisedByFetch :
        /\ cw_exc' = [cw_exc EXCEPT ![m] = exc]
        /\ cw_file' = [cw_file EXCEPT ![m] =
                        IF HandlerFor(exc) = "on_retryable"
                        THEN FileAfterRetryable(@) ELSE @]
    /\ IF main_pc = "none"
       THEN /\ cw_pc' = [cw_pc EXCEPT ![m] = "raised"]
            /\ UNCHANGED <<sub_pc, join_pc, main_pc>>
       ELSE GroupAbort(sub_pc, [cw_pc EXCEPT ![m] = "raised"])
    /\ UNCHANGED <<link_ids, unfinished, putlog, no_segments, no_sub_comment_workers,
                   sub_data, produced, cw_id, cw_data>>
    /\ UNCHANGED <<fanout, taken, sub_exc, mapVars>>
    /\ UNCHANGED outsideFan

\* gather() returns to the body of get(), which puts one END per comment
\* worker and leaves the `async with` body
MainPutSentinels ==
    /\ main_pc = "gather"
    /\ GatherDone(sub_pc)
    /\ link_ids' = link_ids \o Sentinels(no_sub_comment_workers)
    /\ unfinished' = unfinished + no_sub_comment_workers
    /\ putlog' = putlog \o Sentinels(no_sub_comment_workers)
    /\ main_pc' = "exit"
    /\ UNCHANGED <<no_segments, no_sub_comment_workers, sub_pc, sub_data, produced,
                   cw_pc, cw_id, cw_data, cw_file, join_pc>>
    /\ UNCHANGED <<fanout, taken, cw_exc, sub_exc, mapVars>>
    /\ UNCHANGED outsideFan

\* first step of the task link_ids.join()
JoinStart ==
    /\ join_pc = "new"
    /\ join_pc' = IF unfinished > 0 THEN "waiting" ELSE "done"
    /\ UNCHANGED <<link_ids, unfinished, putlog, no_segments, no_sub_comment_workers,
                   sub_pc, sub_data, produced, cw_pc, cw_id, cw_data, cw_file,
                   main_pc>>
    /\ UNCHANGED <<fanout, taken, cw_exc, sub_exc, mapVars>>
    /\ UNCHANGED outsideFan

\* TaskGroup.__aexit__: every task of the group is done
TaskGroupExit ==
    /\ main_pc = "exit"
    /\ \A n \in Producers : Finished(sub_pc[n])
    /\ \A m \in CommentWorkers : cw_pc[m] = "done"
    /\ fanout => join_pc = "done"
    /\ main_pc' = "returned"
    /\ UNCHANGED <<link_ids, unfinished, putlog, no_segments, no_sub_comment_workers,
                   sub_pc, sub_data, produced, cw_pc, cw_id, cw_data, cw_file,
                   join_pc>>
    /\ UNCHANGED <<fanout, taken, cw_exc, sub_exc, mapVars>>
    /\ UNCHANGED outsideFan

\* the entries of a list
Range(list) == {list[i] : i \in 1..Len(list)}

\* the list of results is left in the order the tasks were created
ReverseTasksNot(results) == results

\* tasks["submissions"].reverse()
ReverseTasks(results) == [i \in 1..Len(results) |-> results[Len(results) + 1 - i]]

RECURSIVE DictKeys(_)
\* keys of {submission["id"]: submission for submission in task.result()}
DictKeys(list) ==
    IF list = <<>> THEN <<>>
    ELSE LET front == DictKeys(SubSeq(list, 1, Len(list) - 1))
         IN  IF list[Len(list)] \in Range(front)
             THEN front ELSE Append(front, list[Len(list)])

\* keys of submissions | _submissions
UnionKeys(left, right) == left \o SelectSeq(right, LAMBDA k : k \notin Range(left))

RECURSIVE IndexTasks(_)
\* keys of `submissions` after the loop over the tasks' results
IndexTasks(results) ==
    IF results = <<>> THEN <<>>
    ELSE UnionKeys(IndexTasks(SubSeq(results, 1, Len(results) - 1)),
                   DictKeys(results[Len(results)]))

RECURSIVE Chain(_)
\* for task in tasks["comment_trees"]: for comment_tree in task.result():
\* the entries the inner loop meets, in order
Chain(lists) == IF lists = <<>> THEN <<>> ELSE Head(lists) \o Chain(Tail(lists))

\* the loop over those entries: a worker's result is one flat list of
\* comments (data += tree joins the trees), so the first entry is a comment,
\* a dict that is not empty, and comment_tree[0] raises KeyError
MergeOutcome(entries) == IF entries = <<>> THEN "done" ELSE "KeyError"

\* the tail of get() after the task group: index the submissions, newest
\* segment first, and attach the comments; nothing in it awaits
MergeResults ==
    /\ main_pc = "returned"
    /\ merge_pc = "none"
    /\ LET keys == IndexTasks(ReverseTasks(sub_data))
       IN  IF fanout
           THEN /\ merge_pc' = MergeOutcome(Chain(cw_data))
                /\ IF MergeOutcome(Chain(cw_data)) = "done"
                   THEN /\ m_keys' = keys
                        /\ m_comments' = [k \in Range(keys) |-> <<>>]
                   ELSE UNCHANGED <<m_keys, m_comments>>
           ELSE /\ merge_pc' = "done"
                /\ m_keys' = keys
                /\ UNCHANGED m_comments
    /\ UNCHANGED <<link_ids, unfinished, putlog, no_segments, no_sub_comment_workers,
                   sub_pc, sub_data, produced, cw_pc, cw_id, cw_data, cw_file,
                   main_pc, join_pc, fanout, taken, cw_exc, sub_exc>>
    /\ UNCHANGED outsideFan

\* the steps of comment worker m
CwStep(m) == CwGet(m) \/ CwFetched(m) \/ CwFetchRaises(m)

FanoutNext ==
    \E m \in 1..MaxCommentWorkers : CwGet(m) \/ CwFetched(m) \/ CwFetchRaises(m)

GetNext ==
    \/ \E m \in 1..MaxCommentWorkers : CwGet(m) \/ CwFetched(m) \/ CwFetchRaises(m)
    \/ \E n \in 1..MaxProducers : SubFetchPage(n) \/ SubFinish(n) \/ SubRaises(n)
    \/ MainPutSentinels
    \/ JoinStart
    \/ TaskGroupExit
    \/ MergeResults

GetPlainNext ==
    \/ \E n \in 1..MaxProducers : SubFetchPage(n) \/ SubFinish(n) \/ SubRaises(n)
    \/ TaskGroupExit
    \/ MergeResults

(***************************************************************************)
(* One get() followed through its segment paginators, against a provider   *)
(* that holds a fixed list of records.  The provider answers a request      *)
(* with the `limit` newest records whose created_utc lies in                *)
(* [after, before], both bounds inclusive, newest first.  Every paginator   *)
(* is a task of the TaskGroup: the code between two awaits is one step.     *)
(***************************************************************************)
\* the record lists the provider can hold: created_utc between lo and hi,
\* newest first; a record's id is its place in the list
Stores(lo, hi) ==
    {st \in UNION {[1..k -> lo..hi] : k \in 0..MaxStore} :
        \A i \in 1..(Len(st) - 1) : st[i] >= st[i + 1]}

\* the records a request for [after, before] matches
Matching(st, after, before) ==
    {i \in 1..Len(st) : after <= st[i] /\ st[i] <= before}

\* the provider's answer to client.get(url, params): the ids of the `lim`
\* newest matching records, newest first
Answer(st, after, before, lim) ==
    LET m == Matching(st, after, before)
        first == IF m = {} THEN 0 ELSE CHOOSE i \in m : \A j \in m : i <= j
    IN  [k \in 1..Min(lim, Cardinality(m)) |-> first + k - 1]

\* the segments all given the caller's settings object
ModelCopyNot(i) == 0

\* settings.model_copy(update={"after": after, "before": before}): the i-th
\* segment gets an object of its own
ModelCopy(i) == i

\* the segments whose paginator works on settings object o
SegmentsOn(o, n) == {i \in 1..n : ModelCopy(i) = o}

\* the settings objects once n paginators are scheduled; object 0 is v_settings
SettingsObjects(n) == {0} \cup {ModelCopy(i) : i \in 1..n}

\* the field (1: after, 2: before) of object o after the loop over the
\* segments: the update of the last segment that wrote it
FieldAfterCopies(o, n, segs, field, given) ==
    IF SegmentsOn(o, n) = {} THEN given
    ELSE segs[CHOOSE i \in SegmentsOn(o, n) : \A j \in SegmentsOn(o, n) : j <= i][field]

\* data += resp_json; the list is followed up to 2 * MaxStore entries, which
\* a paginator that returns never exceeds
AddPageTracked(data, page) ==
    IF Len(data) + Len(page) <= 2 * MaxStore THEN AddPage(data, page) ELSE data

WinInit ==
    /\ g_after \in 1..MaxWinAfter
    /\ g_before \in (g_after + 1)..(g_after + MaxWinSpan)
    /\ g_workers \in 1..MaxWinWorkers
    /\ g_pc = "start"
    /\ segments = <<>>
    /\ store \in Stores(g_after, g_before)
    /\ limit \in 1..MaxLimit
    /\ s_after = [o \in {0} |-> g_after]
    /\ s_before = [o \in {0} |-> g_before]
    /\ w_settings = <<>>
    /\ w_pc = <<>>
    /\ w_cursor = <<>>
    /\ w_end = <<>>
    /\ w_req = <<>>
    /\ w_data = <<>>
    /\ w_map = <<>>

WinIdle ==
    /\ store = <<>>
    /\ limit = 1
    /\ s_after = <<>>
    /\ s_before = <<>>
    /\ w_settings = <<>>
    /\ w_pc = <<>>
    /\ w_cursor = <<>>
    /\ w_end = <<>>
    /\ w_req = <<>>
    /\ w_data = <<>>
    /\ w_map = <<>>

\* _schedule_workers: one fetch_time_window task per segment, each on a copy
\* of the settings carrying the segment's bounds
ScheduleWorkers ==
    /\ g_pc = "segmented"
    /\ g_pc' = "scheduled"
    /\ LET n == Len(segments)
       IN  /\ s_after' = [o \in SettingsObjects(n) |->
                            FieldAfterCopies(o, n, segments, 1, s_after[0])]
           /\ s_before' = [o \in SettingsObjects(n) |->
                            FieldAfterCopies(o, n, segments, 2, s_before[0])]
           /\ w_settings' = [i \in 1..n |-> ModelCopy(i)]
           /\ w_pc' = [i \in 1..n |-> "new"]
           /\ w_cursor' = [i \in 1..n |-> 0]
           /\ w_end' = [i \in 1..n |-> 0]
           /\ w_req' = [i \in 1..n |-> <<>>]
           /\ w_data' = [i \in 1..n |-> <<>>]
    /\ UNCHANGED <<store, limit, w_map>>
    /\ UNCHANGED <<g_after, g_before, g_workers, segments>>
    /\ UNCHANGED outsideWin

\* cursor = settings.before; end_time = settings.after; data = list()
WinStart(n) ==
    /\ g_pc = "scheduled"
    /\ n \in DOMAIN w_pc
    /\ w_pc[n] = "new"
    /\ w_pc' = [w_pc EXCEPT ![n] = "loop"]
    /\ w_cursor' = [w_cursor EXCEPT ![n] = s_before[w_settings[n]]]
    /\ w_end' = [w_end EXCEPT ![n] = s_after[w_settings[n]]]
    /\ w_data' = [w_data EXCEPT ![n] = <<>>]
    /\ UNCHANGED <<store, limit, s_after, s_before, w_settings, w_req, w_map>>
    /\ UNCHANGED segVars
    /\ UNCHANGED outsideWin

\* while cursor > end_time: settings.before = cursor; _fetch_once dumps the
\* settings into the request's params and sends it
WinRequest(n) ==
    /\ g_pc = "scheduled"
    /\ n \in DOMAIN w_pc
    /\ w_pc[n] = "loop"
    /\ w_cursor[n] > w_end[n]
    /\ s_before' = [s_before EXCEPT ![w_settings[n]] = w_cursor[n]]
    /\ w_req' = [w_req EXCEPT ![n] = <<s_after[w_settings[n]], s_before'[w_settings[n]]>>]
    /\ w_pc' = [w_pc EXCEPT ![n] = "fetching"]
    /\ UNCHANGED <<store, limit, s_after, w_settings, w_cursor, w_end, w_data, w_map>>
    /\ UNCHANGED segVars
    /\ UNCHANGED outsideWin

\* the loop condition fails: return data
WinLoopEnd(n) ==
    /\ g_pc = "scheduled"
    /\ n \in DOMAIN w_pc
    /\ w_pc[n] = "loop"
    /\ w_cursor[n] <= w_end[n]
    /\ w_pc' = [w_pc EXCEPT ![n] = "returned"]
    /\ UNCHANGED <<store, limit, s_after, s_before, w_settings, w_cursor, w_end,
                   w_req, w_data, w_map>>
    /\ UNCHANGED segVars
    /\ UNCHANGED outsideWin

\* the provider's answer arrives: break on an empty page, else
\* cursor = int(resp_json[-1]['created_utc']); data += resp_json
WinPage(n) ==
    /\ g_pc = "scheduled"
    /\ n \in DOMAIN w_pc
    /\ w_pc[n] = "fetching"
    /\ LET page == Answer(store, w_req[n][1], w_req[n][2], limit)
       IN  IF PageEndsLoop(page)
           THEN /\ w_pc' = [w_pc EXCEPT ![n] = "returned"]
                /\ UNCHANGED <<w_cursor, w_data>>
           ELSE /\ w_pc' = [w_pc EXCEPT ![n] = "loop"]
                /\ w_cursor' = [w_cursor EXCEPT ![n] = store[NextCursor(page)]]
                /\ w_data' = [w_data EXCEPT ![n] = AddPageTracked(w_data[n], page)]
    /\ UNCHANGED <<store, limit, s_after, s_before, w_settings, w_end, w_req, w_map>>
    /\ UNCHANGED segVars
    /\ UNCHANGED outsideWin

\* the task group is left when every paginator has returned; the tail of
\* get() indexes the results, newest segment first
WinMerge ==
    /\ g_pc = "scheduled"
    /\ \A n \in DOMAIN w_pc : w_pc[n] = "returned"
    /\ g_pc' = "returned"
    /\ w_map' = IndexTasks(ReverseTasks(w_data))
    /\ UNCHANGED <<store, limit, s_after, s_before, w_settings, w_pc, w_cursor,
                   w_end, w_req, w_data>>
    /\ UNCHANGED <<g_after, g_before, g_workers, segments>>
    /\ UNCHANGED outsideWin

\* a step of the n-th paginator
WinStep(n) ==
    \/ WinStart(n)
    \/ WinRequest(n)
    \/ WinLoopEnd(n)
    \/ WinPage(n)

WinNext ==
    \/ ChoosePath
    \/ BuildSegment
    \/ ClampSegments
    \/ ScheduleWorkers
    \/ \E n \in 1..MaxWinWorkers : WinStart(n)
    \/ \E n \in 1..MaxWinWorkers : WinRequest(n)
    \/ \E n \in 1..MaxWinWorkers : WinLoopEnd(n)
    \/ \E n \in 1..MaxWinWorkers : WinPage(n)
    \/ WinMerge

(***************************************************************************)
(* preprocess_json: index a list of records by id and resolve duplicates   *)
(***************************************************************************)
\* service.duplicate_action; "other" stands for any value that is not one
\* of the five policies
Policies == {"keep_newest", "keep_oldest", "remove", "keep_original",
             "keep_removed", "other"}

Ids == 1..MaxIds

\* the lists of records: a record carries its id, its position in the list
\* (which tells the copies of an id apart) and the field `deleted`
Plain == UNION {{[i \in 1..n |-> [id |-> f[i][1], order |-> i, deleted |-> f[i][2]]] :
                    f \in [1..n -> Ids \X BOOLEAN]} : n \in 0..MaxLen}

\* the comments/tree endpoint puts every record under another layer 'data'
Wrap(list) == [i \in 1..Len(list) |-> [data |-> list[i]]]

Inputs == Plain \cup {Wrap(list) : list \in Plain}

\* if index not in elem: elem = elem['data']
Unwrap(elem) == IF "id" \in DOMAIN elem THEN elem ELSE elem.data

\* the flag 'remove' stored in place of a record
RemoveFlag == [id |-> 0, order |-> 0, deleted |-> FALSE]

\* _is_deleted: the field `deleted`, when it is True or False, decides
IsDeleted(rec) == rec.deleted

\* the entry stays as it is
KeepFirstSeen(prev, elem) == prev

\* case 'keep_newest': indexed[elem_id] = elem
KeepNewest(prev, elem) == elem

\* case 'keep_oldest': pass
KeepOldest(prev, elem) == prev

\* the flag is set on the second copy and taken back by the third
MarkRemovedOnce(prev, elem) == IF prev = RemoveFlag THEN elem ELSE RemoveFlag

\* case 'remove': indexed[elem_id] = 'remove'
MarkRemoved(prev, elem) == RemoveFlag

\* every later copy replaces the entry
KeepOriginalNewest(prev, elem) == elem

\* of two copies that are not deleted the first stays
KeepOriginalFirstLive(prev, elem) ==
    LET indexed_deleted == IF prev # RemoveFlag THEN IsDeleted(prev) ELSE TRUE
        curr_deleted == IsDeleted(elem)
    IN  IF indexed_deleted /\ curr_deleted THEN RemoveFlag
        ELSE IF indexed_deleted /\ ~curr_deleted THEN elem
        ELSE prev

\* case 'keep_original'
KeepOriginal(prev, elem) ==
    LET indexed_deleted == IF prev # RemoveFlag THEN IsDeleted(prev) ELSE TRUE
        curr_deleted == IsDeleted(elem)
    IN  IF indexed_deleted /\ curr_deleted THEN RemoveFlag
        ELSE IF indexed_deleted /\ ~curr_deleted THEN elem
        ELSE IF ~indexed_deleted /\ curr_deleted THEN prev
        ELSE elem

\* of two deleted copies the first stays
KeepRemovedFirstDeleted(prev, elem) ==
    LET indexed_deleted == IF prev # RemoveFlag THEN IsDeleted(prev) ELSE FALSE
        curr_deleted == IsDeleted(elem)
    IN  IF indexed_deleted THEN prev
        ELSE IF curr_deleted THEN elem
        ELSE RemoveFlag

\* case 'keep_removed'
KeepRemoved(prev, elem) ==
    LET indexed_deleted == IF prev # RemoveFlag THEN IsDeleted(prev) ELSE FALSE
        curr_deleted == IsDeleted(elem)
    IN  IF indexed_deleted /\ curr_deleted THEN elem
        ELSE IF indexed_deleted /\ ~curr_deleted THEN prev
        ELSE IF ~indexed_deleted /\ curr_deleted THEN elem
        ELSE RemoveFlag

\* match service.duplicate_action
OnDuplicate(action, prev, elem) ==
    CASE action = "keep_newest" -> KeepNewest(prev, elem)
      [] action = "keep_oldest" -> KeepOldest(prev, elem)
      [] action = "remove" -> MarkRemoved(prev, elem)
      [] action = "keep_original" -> KeepOriginal(prev, elem)
      [] action = "keep_removed" -> KeepRemoved(prev, elem)
      [] OTHER -> elem

\* the dict of the call before is used again
FreshDictKept(before) == before

\* indexed = dict()
FreshDict(before) == <<>>

\* indexed[key] = value
DictSet(dict, key, value) ==
    [k \in DOMAIN dict \cup {key} |-> IF k = key THEN value ELSE dict[k]]

\* a filter that runs under the two policies that look at deletion only
FiltersNot(action) == action \in {"keep_removed", "keep_original"}

\* if service.duplicate_action in ['keep_removed', 'keep_original', 'remove']
Filters(action) == action \in {"keep_removed", "keep_original", "remove"}

\* {k: v for k, v in indexed.items() if v != 'remove'}
DropFlagged(dict) ==
    [k \in {x \in DOMAIN dict : dict[x] # RemoveFlag} |-> dict[k]]

\* the keys of that dict, in the order they had
KeysDropFlagged(keys, dict) == SelectSeq(keys, LAMBDA k : dict[k] # RemoveFlag)

\* the body of `for elem in obj` for one element
IndexElem(action, dict, elem) ==
    IF elem.id \notin DOMAIN dict
    THEN DictSet(dict, elem.id, elem)
    ELSE DictSet(dict, elem.id, OnDuplicate(action, dict[elem.id], elem))

RECURSIVE LoopResult(_, _, _)
\* `indexed` after the loop has taken the first n elements of obj
LoopResult(action, obj, n) ==
    IF n = 0 THEN <<>>
    ELSE IndexElem(action, LoopResult(action, obj, n - 1), Unwrap(obj[n]))

\* preprocess_json(service, obj) as a whole
PreprocessJson(action, obj) ==
    IF Filters(action)
    THEN DropFlagged(LoopResult(action, obj, Len(obj)))
    ELSE LoopResult(action, obj, Len(obj))

\* preprocess_json is not running
DedIdle ==
    /\ d_obj = <<>>
    /\ d_action = "keep_newest"
    /\ d_pc = "returned"
    /\ d_i = 0
    /\ d_keys = <<>>
    /\ d_indexed = <<>>
    /\ d_call = 0
    /\ d_given = <<>>
    /\ d_first = <<>>

\* preprocess_json(service, obj): indexed = dict()
DedInit ==
    /\ d_obj \in Inputs
    /\ d_action \in Policies
    /\ d_pc = "loop"
    /\ d_i = 0
    /\ d_keys = <<>>
    /\ d_indexed = <<>>
    /\ d_call = 1
    /\ d_given = d_obj
    /\ d_first = <<>>

\* one pass of `for elem in obj`
DedStep ==
    /\ d_pc = "loop"
    /\ d_i < Len(d_obj)
    /\ d_i' = d_i + 1
    /\ LET elem == Unwrap(d_obj[d_i + 1])
           elem_id == elem.id
       IN  IF elem_id \notin DOMAIN d_indexed
           THEN /\ d_indexed' = DictSet(d_indexed, elem_id, elem)
                /\ d_keys' = Append(d_keys, elem_id)
           ELSE /\ d_indexed' = DictSet(d_indexed, elem_id,
                                        OnDuplicate(d_action, d_indexed[elem_id], elem))
                /\ UNCHANGED d_keys
    /\ UNCHANGED <<d_obj, d_action, d_pc, d_call, d_given, d_first>>
    /\ UNCHANGED outsideDed

\* the loop is over: the flagged entries are dropped under the three
\* policies that flag; return indexed
DedReturn ==
    /\ d_pc = "loop"
    /\ d_i = Len(d_obj)
    /\ d_pc' = "returned"
    /\ IF Filters(d_action)
       THEN /\ d_indexed' = DropFlagged(d_indexed)
            /\ d_keys' = KeysDropFlagged(d_keys, d_indexed)
       ELSE UNCHANGED <<d_indexed, d_keys>>
    /\ UNCHANGED <<d_obj, d_action, d_i, d_call, d_given, d_first>>
    /\ UNCHANGED outsideDed

\* the caller keeps the result and calls preprocess_json again with the same
\* list and the same service: indexed = dict()
DedAgain ==
    /\ d_pc = "returned"
    /\ d_call = 1
    /\ d_call' = 2
    /\ d_first' = d_indexed
    /\ d_pc' = "loop"
    /\ d_i' = 0
    /\ d_keys' = <<>>
    /\ d_indexed' = FreshDict(d_indexed)
    /\ UNCHANGED <<d_obj, d_action, d_given>>
    /\ UNCHANGED outsideDed

DedNext ==
    \/ DedStep
    \/ DedReturn

DedTwiceNext ==
    \/ DedStep
    \/ DedReturn
    \/ DedAgain

(***************************************************************************)
(* split_range (BAScraper/utils.py): n contiguous ranges over               *)
(* [iso_low, iso_high].  A time is a whole number of seconds; an ISO string  *)
(* without offset denotes local time, sr_tz seconds ahead of UTC.           *)
(***************************************************************************)
\* int(datetime.fromisoformat(iso).timestamp())
EpochOf(iso, tz) == iso - tz

\* datetime.fromtimestamp(epoch).isoformat()
IsoOf(epoch, tz) == epoch + tz

\* the end taken one second too late: current_low + segment_size
CurrentHighNot(low, size, remainder) ==
    low + size + (IF remainder > 0 THEN 1 ELSE 0)

\* current_high = current_low + segment_size - 1; if remainder > 0: current_high += 1
CurrentHigh(low, size, remainder) ==
    low + size - 1 + (IF remainder > 0 THEN 1 ELSE 0)

SplitInit ==
    /\ sr_iso_low \in 0..MaxSplitLow
    /\ sr_iso_high \in sr_iso_low..(sr_iso_low + MaxSplitLen)
    /\ sr_n \in 1..MaxSplitN
    /\ sr_tz \in (-MaxTz)..MaxTz
    /\ sr_pc = "new"
    /\ sr_size = 0
    /\ sr_remainder = 0
    /\ sr_low = 0
    /\ sr_i = 0
    /\ sr_ranges = <<>>

SplitIdle ==
    /\ sr_iso_low = 0
    /\ sr_iso_high = 0
    /\ sr_n = 1
    /\ sr_tz = 0
    /\ sr_pc = "new"
    /\ sr_size = 0
    /\ sr_remainder = 0
    /\ sr_low = 0
    /\ sr_i = 0
    /\ sr_ranges = <<>>

\* epoch_low, epoch_high; segment_size, remainder; ranges = []; current_low = epoch_low
SplitStart ==
    /\ sr_pc = "new"
    /\ LET epoch_low == EpochOf(sr_iso_low, sr_tz)
           epoch_high == EpochOf(sr_iso_high, sr_tz)
       IN  /\ sr_size' = (epoch_high - epoch_low + 1) \div sr_n
           /\ sr_remainder' = (epoch_high - epoch_low + 1) % sr_n
           /\ sr_low' = epoch_low
    /\ sr_ranges' = <<>>
    /\ sr_pc' = "loop"
    /\ UNCHANGED <<sr_iso_low, sr_iso_high, sr_n, sr_tz, sr_i>>
    /\ UNCHANGED outsideSplit

\* one pass of `for i in range(n)`
SplitPass ==
    /\ sr_pc = "loop"
    /\ sr_i < sr_n
    /\ LET current_high == CurrentHigh(sr_low, sr_size, sr_remainder)
       IN  /\ sr_ranges' = Append(sr_ranges,
                                  <<IsoOf(sr_low, sr_tz), IsoOf(current_high, sr_tz)>>)
           /\ sr_low' = current_high + 1
    /\ sr_remainder' = IF sr_remainder > 0 THEN sr_remainder - 1 ELSE sr_remainder
    /\ sr_i' = sr_i + 1
    /\ UNCHANGED <<sr_iso_low, sr_iso_high, sr_n, sr_tz, sr_pc, sr_size>>
    /\ UNCHANGED outsideSplit

\* return ranges
SplitReturn ==
    /\ sr_pc = "loop"
    /\ sr_i = sr_n
    /\ sr_pc' = "returned"
    /\ UNCHANGED <<sr_iso_low, sr_iso_high, sr_n, sr_tz, sr_size, sr_remainder,
                   sr_low, sr_i, sr_ranges>>
    /\ UNCHANGED outsideSplit

SplitNext ==
    \/ SplitStart
    \/ SplitPass
    \/ SplitReturn

(***************************************************************************)
(* BaseService.fetch_once: _fetch_once under self.service_retry, the       *)
(* tenacity decorator built in __init__ (stop_after_attempt(max_retries),  *)
(* retry_if_exception_type(retryable_exception), reraise left False).      *)
(***************************************************************************)
\* self.retryable_exception
RetryableExceptions == {"NetworkError", "TimeoutException", "RateLimitRetry"}

\* what a call of _fetch_once can raise: those, or any other error
AttemptErrors == RetryableExceptions \cup {"Fatal"}

\* a retry condition that covers every exception
RetryIfNot(exc) == TRUE

\* retry_if_exception_type(self.retryable_exception)
RetryIf(exc) == exc \in RetryableExceptions

\* a stop that allows one attempt more
StopAfterAttemptNot(attempt_number, max_attempt_number) ==
    attempt_number > max_attempt_number

\* stop_after_attempt(settings.max_retries)
StopAfterAttempt(attempt_number, max_attempt_number) ==
    attempt_number >= max_attempt_number

\* the single-request path of get() calls fetch_once
TryInit ==
    /\ t_max_retries \in 0..MaxStop
    /\ t_pc = "new"
    /\ t_attempts = 0
    /\ t_errors = <<>>

TryIdle ==
    /\ t_max_retries = 0
    /\ t_pc = "returned"
    /\ t_attempts = 0
    /\ t_errors = <<>>

\* the decorator's loop starts with an attempt, whatever the stop condition
AttemptFirst ==
    /\ t_pc = "new"
    /\ t_pc' = "attempt"
    /\ t_attempts' = 1
    /\ UNCHANGED <<t_max_retries, t_errors>>
    /\ UNCHANGED outsideTry

\* the call of _fetch_once returns a page: the decorator returns it
AttemptReturns ==
    /\ t_pc = "attempt"
    /\ t_pc' = "returned"
    /\ UNCHANGED <<t_max_retries, t_attempts, t_errors>>
    /\ UNCHANGED outsideTry

\* the call of _fetch_once raises: an exception the retry condition does not
\* cover is raised as it is; otherwise the stop condition decides between
\* RetryError and a sleep before the next attempt
AttemptRaises ==
    /\ t_pc = "attempt"
    /\ \E exc \in AttemptErrors :
        /\ t_errors' = Append(t_errors, exc)
        /\ t_pc' = IF ~RetryIf(exc) THEN "raised"
                   ELSE IF StopAfterAttempt(t_attempts, t_max_retries) THEN "RetryError"
                   ELSE "sleep"
    /\ UNCHANGED <<t_max_retries, t_attempts>>
    /\ UNCHANGED outsideTry

\* the wait (wait_random_exponential) is over: the next call of _fetch_once
AttemptAgain ==
    /\ t_pc = "sleep"
    /\ t_pc' = "attempt"
    /\ t_attempts' = t_attempts + 1
    /\ UNCHANGED <<t_max_retries, t_errors>>
    /\ UNCHANGED outsideTry

TryNext ==
    \/ AttemptFirst
    \/ AttemptReturns
    \/ AttemptRaises
    \/ AttemptAgain

(***************************************************************************)
(* BaseService: _start_or_extend_cooldown, called by response_code_handler *)
(* for every 429, and the _cooldown_controller task it creates.  No await  *)
(* suspends while _cooldown_lock is held, so the lock is never contended   *)
(* and each `async with` block runs together with the code around it.      *)
(***************************************************************************)
CoolTasks == 1..MaxCoolCalls

\* a start that always creates a controller
TaskMissingNot(task, tasks) == TRUE

\* self._cooldown_task is None or self._cooldown_task.done()
TaskMissing(task, tasks) == task = None \/ tasks[task].pc = "done"

\* a controller that takes every deadline as reached
SleepForNot(until, t) == 0

\* sleep_for = self._cooldown_until - loop.time()
SleepFor(until, t) == until - t

\* BaseService.__init__
CtlInit ==
    /\ cd_now = 0
    /\ cd_until = 0
    /\ cd_clear = TRUE
    /\ cd_task = None
    /\ cd_tasks = <<>>
    /\ cd_calls = 0

\* _start_or_extend_cooldown(seconds)
StartOrExtendCooldown(seconds) ==
    /\ cd_calls < MaxCoolCalls
    /\ cd_now <= MaxCoolTime
    /\ cd_calls' = cd_calls + 1
    /\ cd_until' = ExtendCooldown(cd_until, cd_now, seconds)
    /\ cd_clear' = FALSE
    /\ IF TaskMissing(cd_task, cd_tasks)
       THEN /\ cd_tasks' = Append(cd_tasks, [pc |-> "created", wake |-> 0])
            /\ cd_task' = Len(cd_tasks) + 1
       ELSE UNCHANGED <<cd_tasks, cd_task>>
    /\ UNCHANGED cd_now
    /\ UNCHANGED outsideCtl

\* _cooldown_controller, from its start or from the end of its sleep to the
\* next sleep or to its end (the finally block)
CooldownController(k) ==
    /\ k <= Len(cd_tasks)
    /\ IF k <= Len(cd_tasks)
       THEN \/ cd_tasks[k].pc = "created"
            \/ cd_tasks[k].pc = "sleeping" /\ cd_now >= cd_tasks[k].wake
       ELSE FALSE
    /\ IF SleepFor(cd_until, cd_now) <= 0
       THEN /\ cd_clear' = TRUE
            /\ cd_task' = None
            /\ cd_tasks' = [cd_tasks EXCEPT ![k] = [pc |-> "done", wake |-> 0]]
       ELSE /\ cd_tasks' = [cd_tasks EXCEPT ![k] =
                               [pc |-> "sleeping",
                                wake |-> cd_now + SleepFor(cd_until, cd_now)]]
            /\ UNCHANGED <<cd_clear, cd_task>>
    /\ UNCHANGED <<cd_now, cd_until, cd_calls>>
    /\ UNCHANGED outsideCtl

\* the clock advances: up to the last time a 429 is handled, and on to the
\* deadline of a cooldown that is running
CoolTick ==
    /\ cd_now < Max(MaxCoolTime, cd_until)
    /\ cd_now' = cd_now + 1
    /\ UNCHANGED <<cd_until, cd_clear, cd_task, cd_tasks, cd_calls>>
    /\ UNCHANGED outsideCtl

CtlNext ==
    \/ \E seconds \in 0..MaxCoolSeconds : StartOrExtendCooldown(seconds)
    \/ \E k \in CoolTasks : CooldownController(k)
    \/ CoolTick

(***************************************************************************)
(* Specifications                                                          *)
(***************************************************************************)
InitLimiter == LimInit /\ SegIdle /\ PagIdle /\ FanIdle /\ DedIdle /\ WinIdle /\ SplitIdle /\ TryIdle /\ CtlInit
SpecLimiter == InitLimiter /\ [][LimNext]_vars

\* the clock advances, and the event loop resumes a caller whose wait has
\* returned (timeout or notify_all)
InitLimiterFair == GateInit /\ SegIdle /\ PagIdle /\ FanIdle /\ DedIdle /\ WinIdle /\ SplitIdle /\ TryIdle /\ CtlInit
SpecLimiterFair ==
    /\ InitLimiterFair
    /\ [][LimClockNext]_vars
    /\ WF_vars(Tick)
    /\ WF_vars(ClockRuns)
    /\ \A w \in Workers : WF_vars(WakeUp(w))

InitCooldown == CoolInit /\ SegIdle /\ PagIdle /\ FanIdle /\ DedIdle /\ WinIdle /\ SplitIdle /\ TryIdle /\ CtlInit
SpecCooldown == InitCooldown /\ [][LimNext]_vars

InitSegments == SegInit /\ LimInit /\ PagIdle /\ FanIdle /\ DedIdle /\ WinIdle /\ SplitIdle /\ TryIdle /\ CtlInit
SpecSegments == InitSegments /\ [][SegNext]_vars

InitPaginator == PagInit /\ LimInit /\ SegIdle /\ FanIdle /\ DedIdle /\ WinIdle /\ SplitIdle /\ TryIdle /\ CtlInit
SpecPaginator == InitPaginator /\ [][PagNext]_vars

\* the event loop runs every task that is ready: a comment worker that can
\* take a step takes it
InitFanout == FanoutInit /\ LimInit /\ SegIdle /\ PagIdle /\ DedIdle /\ WinIdle /\ SplitIdle /\ TryIdle /\ CtlInit
SpecFanout ==
    /\ InitFanout
    /\ [][FanoutNext]_vars
    /\ \A m \in 1..MaxCommentWorkers : WF_vars(CwStep(m))

InitGet == GetInit /\ LimInit /\ SegIdle /\ PagIdle /\ DedIdle /\ WinIdle /\ SplitIdle /\ TryIdle /\ CtlInit
SpecGet == InitGet /\ [][GetNext]_vars

InitGetPlain == GetPlainInit /\ LimInit /\ SegIdle /\ PagIdle /\ DedIdle /\ WinIdle /\ SplitIdle /\ TryIdle /\ CtlInit
SpecGetPlain == InitGetPlain /\ [][GetPlainNext]_vars

InitDedup == DedInit /\ LimInit /\ SegIdle /\ PagIdle /\ FanIdle /\ WinIdle /\ SplitIdle /\ TryIdle /\ CtlInit
SpecDedup == InitDedup /\ [][DedNext]_vars

SpecDedupTwice == InitDedup /\ [][DedTwiceNext]_vars

InitWindow == WinInit /\ LimInit /\ PagIdle /\ FanIdle /\ DedIdle /\ SplitIdle /\ TryIdle /\ CtlInit
SpecWindow == InitWindow /\ [][WinNext]_vars

InitSplit == SplitInit /\ LimInit /\ SegIdle /\ PagIdle /\ FanIdle /\ DedIdle /\ WinIdle /\ TryIdle /\ CtlInit
SpecSplit == InitSplit /\ [][SplitNext]_vars

InitTry == TryInit /\ LimInit /\ SegIdle /\ PagIdle /\ FanIdle /\ DedIdle /\ WinIdle /\ SplitIdle /\ CtlInit
SpecTry == InitTry /\ [][TryNext]_vars

InitCtl == CtlInit /\ LimInit /\ SegIdle /\ PagIdle /\ FanIdle /\ DedIdle /\ WinIdle /\ SplitIdle /\ TryIdle
SpecCtl == InitCtl /\ [][CtlNext]_vars

\* the clock advances and the event loop runs a controller that is ready
SpecCtlFair ==
    /\ InitCtl
    /\ [][CtlNext]_vars
    /\ WF_vars(CoolTick)
    /\ \A k \in CoolTasks : WF_vars(CooldownController(k))

\* the event loop runs every task that is ready
SpecWindowFair ==
    /\ InitWindow
    /\ [][WinNext]_vars
    /\ \A n \in 1..MaxWinWorkers : WF_vars(WinStep(n))

(***************************************************************************)
(* Claims about the rate limiter                                           *)
(***************************************************************************)

\* C1: while the limiter holds the count an update() stored (no later update(),
\* deadline not reached), at most that many callers have passed the token
\* gate, whatever the interleaving; a caller suspended at the gate that no
\* update() has woken sleeps until the reset deadline in force, and before
\* that deadline it is suspended only because no token is left.
C1_TokenGate ==
    /\ gate_base # None => (gate_passed <= gate_base /\ gate_passed + tokens = gate_base)
    /\ \A w \in Workers :
          (lpc[w] = "waiting" /\ w \notin lnotified) =>
              /\ lwait[w] = reset_at
              /\ now < reset_at => tokens = 0

\* k >= 1 tokens were stored, k callers have passed, a further one is suspended
C1_Witness ==
    /\ gate_base >= 1
    /\ gate_passed = gate_base
    /\ now < reset_at
    /\ \E w \in Workers : lpc[w] = "waiting" /\ w \notin lnotified

\* C2: once update() has applied a remaining count of the provider's current
\* window, the GETs the provider receives in that window stay within that
\* count: no caller that the gate granted a token of this window meets a
\* provider whose window is used up.
C2_NeverOverspend == ~overspent

(***************************************************************************)
(* Claims about the segments                                               *)
(***************************************************************************)
\* the seconds a segment [start, end] covers, both bounds inclusive
SegSet(seg) == seg[1]..seg[2]

\* C3: for every after < before and every no_workers N, the N segments of
\* get() are contiguous (each starts at the second right after the previous
\* one's end), no two of them share a second, the first starts at after, the
\* last ends at before, and together they cover exactly after..before.
C3_SegmentsCover ==
    g_pc = "segmented" =>
        /\ Len(segments) = g_workers
        /\ segments[1][1] = g_after
        /\ segments[g_workers][2] = g_before
        /\ \A s \in 1..(g_workers - 1) : segments[s + 1][1] = segments[s][2] + 1
        /\ \A s, t \in 1..g_workers :
              s # t => SegSet(segments[s]) \cap SegSet(segments[t]) = {}
        /\ UNION {SegSet(segments[s]) : s \in 1..g_workers} = g_after..g_before

\* three or more segments of unequal length have been built
C3_Witness ==
    /\ g_pc = "segmented"
    /\ g_workers >= 3
    /\ g_before - g_after > g_workers
    /\ (g_before - g_after) % g_workers # 0

(***************************************************************************)
(* Claims about the paginator                                              *)
(***************************************************************************)
RECURSIVE Flatten(_)
\* the records of a sequence of pages, in order
Flatten(pages) ==
    IF pages = <<>> THEN <<>> ELSE Head(pages) \o Flatten(Tail(pages))

\* C4: the paginator stops at the first empty page: the records it holds are
\* those of the pages fetched, in fetch order and nothing more; no page is
\* fetched after an empty one; and once non-empty pages P1..Pk were followed
\* by an empty page it has returned P1 ++ ... ++ Pk after exactly k + 1 fetches.
C4_StopsAtEmptyPage ==
    /\ p_data = Flatten(p_pages)
    /\ \A i \in 1..(Len(p_pages) - 1) : p_pages[i] # <<>>
    /\ (p_pages # <<>> /\ p_pages[Len(p_pages)] = <<>>) =>
          (p_pc = "returned" /\ p_fetches = Len(p_pages))

\* two different non-empty pages, then an empty one, and the paginator returned
C4_Witness ==
    /\ p_pc = "returned"
    /\ Len(p_pages) = 3
    /\ p_pages[3] = <<>>
    /\ p_pages[1] # p_pages[2]
    /\ p_fetches = 3
    /\ Len(p_data) = 2

\* C5: when the fetch of a page fails with a retryable error on every
\* attempt, the paginator has made max_retries attempts for that page and
\* then returns the records of the earlier pages without raising.
C5_PartialOnExhaustion ==
    p_exc = "Retryable" =>
        /\ p_pc = "partial"
        /\ p_fetches - Len(p_pages) = p_max_retries

\* C6: when the paginator has ended, its temp file is deleted exactly when it
\* completed cleanly; after a retryable error, exhausted retries, a fatal
\* error or a cancellation the file still exists.
C6_TempFileKept ==
    p_pc \in {"returned", "partial", "raised"} =>
        ((p_file = "deleted") <=> (p_pc = "returned"))

(***************************************************************************)
(* Claims about the comment fan-out                                        *)
(***************************************************************************)
\* the number of sentinels in a sequence of queue entries
SentinelCount(q) == Cardinality({i \in 1..Len(q) : q[i] = END})

\* parent ids in a sequence of queue entries
HoldsParentId(q) == \E i \in 1..Len(q) : q[i] # END

\* every comment worker has returned
AllWorkersExited == \A m \in CommentWorkers : cw_pc[m] = "done"

\* C7: a comment worker exits when it dequeues its first sentinel and takes
\* nothing from the queue afterwards; with M workers on a queue that holds at
\* least M sentinels and no parent id, every worker terminates.
C7_WorkersExitOnSentinel ==
    /\ [][\A m \in CommentWorkers :
            /\ (cw_pc[m] = "get" /\ cw_pc'[m] # "get" /\ Head(link_ids) = END)
                    => cw_pc'[m] = "done"
            /\ cw_pc[m] = "done" => cw_pc'[m] = "done"]_vars
    /\ (~HoldsParentId(putlog) /\ SentinelCount(putlog) >= no_sub_comment_workers)
            ~> AllWorkersExited

\* two workers, three sentinels and nothing else: both workers have exited
\* and one sentinel is left on the queue
C7_Witness ==
    /\ no_sub_comment_workers >= 2
    /\ ~HoldsParentId(putlog)
    /\ SentinelCount(putlog) > no_sub_comment_workers
    /\ AllWorkersExited
    /\ Len(link_ids) = Len(putlog) - no_sub_comment_workers

\* C8: in a segmented get() with comment fan-out a sentinel is on the queue
\* only once every segment paginator has finished; no parent id is put after
\* a sentinel; the sentinels are put all together, one per comment worker,
\* and they have been put when the body of get() has passed the hand-off.
C8_SentinelsAfterProducers ==
    /\ SentinelCount(putlog) > 0 => \A n \in Producers : Finished(sub_pc[n])
    /\ \A i, j \in 1..Len(putlog) : (i < j /\ putlog[i] = END) => putlog[j] = END
    /\ SentinelCount(putlog) \in {0, no_sub_comment_workers}
    /\ main_pc \in {"exit", "returned"} => SentinelCount(putlog) = no_sub_comment_workers
    /\ (main_pc = "gather" /\ no_sub_comment_workers > 0) => SentinelCount(putlog) = 0

\* two paginators, two comment workers, a parent id and then two sentinels
\* on the queue, and get() has left the task group
C8_Witness ==
    /\ main_pc = "returned"
    /\ no_segments >= 2
    /\ no_sub_comment_workers >= 2
    /\ HoldsParentId(putlog)
    /\ SentinelCount(putlog) = no_sub_comment_workers
    /\ \E n \in Producers : sub_data[n] # <<>>

(***************************************************************************)
(* Claims about preprocess_json                                            *)
(***************************************************************************)
\* the ids of the input list
InputIds == {Unwrap(d_obj[i]).id : i \in 1..Len(d_obj)}

\* the positions of the records that carry an id: its duplicate group
GroupOf(id) == {i \in 1..Len(d_obj) : Unwrap(d_obj[i]).id = id}

LastOf(S) == CHOOSE i \in S : \A j \in S : j <= i
FirstOf(S) == CHOOSE i \in S : \A j \in S : i <= j

\* C9: for every input list and duplicate groups of any size, the result of
\* preprocess_json has one entry per id of the input; under keep_newest it is
\* the last-seen record of the id's group, under keep_oldest the first-seen.
C9_KeepNewestKeepOldest ==
    (d_pc = "returned" /\ d_action \in {"keep_newest", "keep_oldest"}) =>
        /\ DOMAIN d_indexed = InputIds
        /\ \A id \in InputIds :
              d_indexed[id] =
                  Unwrap(d_obj[IF d_action = "keep_newest"
                               THEN LastOf(GroupOf(id)) ELSE FirstOf(GroupOf(id))])

\* keep_newest on a list in which one id has three copies or more that are
\* not all alike, next to another id
C9_Witness ==
    /\ d_pc = "returned"
    /\ d_action = "keep_newest"
    /\ Len(d_obj) = MaxLen
    /\ Cardinality(InputIds) >= 2
    /\ \E id \in InputIds :
          /\ Cardinality(GroupOf(id)) >= 3
          /\ d_indexed[id].order = LastOf(GroupOf(id))
          /\ Unwrap(d_obj[FirstOf(GroupOf(id))]).deleted # d_indexed[id].deleted

\* C10: under the remove policy the result of preprocess_json holds exactly
\* the ids that occur once in the input, each with its record; an id that
\* occurs two, three or four times has no entry.
C10_RemoveDropsDuplicates ==
    (d_pc = "returned" /\ d_action = "remove") =>
        /\ DOMAIN d_indexed = {id \in InputIds : Cardinality(GroupOf(id)) = 1}
        /\ \A id \in DOMAIN d_indexed :
              d_indexed[id] = Unwrap(d_obj[FirstOf(GroupOf(id))])

\* remove on a list with three copies of one id and a single record of another
C10_Witness ==
    /\ d_pc = "returned"
    /\ d_action = "remove"
    /\ \E id \in InputIds : Cardinality(GroupOf(id)) >= 3
    /\ \E id \in InputIds :
          /\ Cardinality(GroupOf(id)) = 1
          /\ DOMAIN d_indexed = {id}
\* the records of an id's group that are not detected deleted
LiveOf(id) == {i \in GroupOf(id) : ~IsDeleted(Unwrap(d_obj[i]))}

\* the record at a position of the input
RecordAt(i) == Unwrap(d_obj[i])

\* C11 as stated: under keep_original, for two records sharing an id, the
\* output keeps the not-deleted one when exactly one is deleted, and keeps
\* the more recently seen one (the id stays in the output) when both are
\* deleted or both are not deleted.
C11_PairKeepsMostRecent ==
    (d_pc = "returned" /\ d_action = "keep_original") =>
        \A id \in InputIds :
            Cardinality(GroupOf(id)) = 2 =>
                /\ id \in DOMAIN d_indexed
                /\ d_indexed[id] =
                      IF Cardinality(LiveOf(id)) = 1
                      THEN RecordAt(LastOf(LiveOf(id)))
                      ELSE RecordAt(LastOf(GroupOf(id)))

\* C11 amended: under keep_original, for two records sharing an id, the
\* output keeps the not-deleted one when exactly one is deleted, keeps the
\* more recently seen one when both are not deleted, and has no entry for
\* the id when both are deleted.
C11_PairAmended ==
    (d_pc = "returned" /\ d_action = "keep_original") =>
        \A id \in InputIds :
            Cardinality(GroupOf(id)) = 2 =>
                IF LiveOf(id) = {}
                THEN id \notin DOMAIN d_indexed
                ELSE /\ id \in DOMAIN d_indexed
                     /\ d_indexed[id] = RecordAt(LastOf(LiveOf(id)))

\* keep_original on two pairs: one with both records deleted, whose id is
\* gone, and one with the first record live and the second deleted
C11_Witness ==
    /\ d_pc = "returned"
    /\ d_action = "keep_original"
    /\ \E id \in InputIds :
          /\ Cardinality(GroupOf(id)) = 2
          /\ LiveOf(id) = {}
          /\ id \notin DOMAIN d_indexed
    /\ \E id \in InputIds :
          /\ Cardinality(GroupOf(id)) = 2
          /\ LiveOf(id) = {FirstOf(GroupOf(id))}
          /\ d_indexed[id].order = FirstOf(GroupOf(id))

\* C12: under keep_original, for a duplicate group of two or more records in
\* any arrangement of deleted and not-deleted, the output holds the last-seen
\* not-deleted record of the group, and no entry when every record of the
\* group is deleted.
C12_KeepOriginalGroups ==
    (d_pc = "returned" /\ d_action = "keep_original") =>
        \A id \in InputIds :
            Cardinality(GroupOf(id)) >= 2 =>
                /\ (id \in DOMAIN d_indexed) <=> (LiveOf(id) # {})
                /\ LiveOf(id) # {} => d_indexed[id] = RecordAt(LastOf(LiveOf(id)))

\* keep_original on a group of four: live, deleted, live, deleted; the third
\* record is kept
C12_Witness ==
    /\ d_pc = "returned"
    /\ d_action = "keep_original"
    /\ \E id \in InputIds :
          /\ Cardinality(GroupOf(id)) >= 4
          /\ Cardinality(LiveOf(id)) = 2
          /\ FirstOf(GroupOf(id)) \in LiveOf(id)
          /\ LastOf(GroupOf(id)) \notin LiveOf(id)
          /\ d_indexed[id].order = LastOf(LiveOf(id))
          /\ d_indexed[id].order > FirstOf(GroupOf(id)) + 1

\* the list with the deleted status of every record inverted
Invert(list) ==
    [i \in 1..Len(list) |->
        IF "id" \in DOMAIN list[i]
        THEN [list[i] EXCEPT !.deleted = ~@]
        ELSE [data |-> [list[i].data EXCEPT !.deleted = ~@]]]

\* the input position a result holds for each of its ids
Selected(dict) == [id \in DOMAIN dict |-> dict[id].order]

\* C13: keep_removed mirrors keep_original: on every input list it selects
\* for each id the input position (or drops the id) that keep_original selects
\* on the same list with the deleted status of every record inverted.
C13_KeepRemovedMirrors ==
    (d_pc = "returned" /\ d_action = "keep_removed") =>
        Selected(d_indexed) = Selected(PreprocessJson("keep_original", Invert(d_obj)))

\* keep_removed on a list where one id is dropped (two live copies) and
\* another keeps its last deleted copy out of three or more
C13_Witness ==
    /\ d_pc = "returned"
    /\ d_action = "keep_removed"
    /\ \E id \in InputIds :
          /\ Cardinality(GroupOf(id)) >= 2
          /\ id \notin DOMAIN d_indexed
    /\ \E id \in InputIds :
          /\ Cardinality(GroupOf(id)) >= 2
          /\ LiveOf(id) # {}
          /\ id \in DOMAIN d_indexed
          /\ IsDeleted(d_indexed[id])
Parents == UNION {Range(sub_data[n]) : n \in Producers}

\* the comments the workers have fetched for a parent, whichever worker did
FetchedTree(id) == SelectSeq(Chain(cw_data), LAMBDA c : c = id)

\* C15: after a get() with comment fan-out the returned map gives every
\* parent record a comments list, and that list is the comment tree fetched
\* for the parent's id (empty when none was fetched or the tree was empty),
\* whichever worker fetched it.
C15_CommentsAttached ==
    (fanout /\ merge_pc # "none") =>
        /\ merge_pc = "done"
        /\ Range(m_keys) = Parents
        /\ \A id \in Parents :
              /\ id \in DOMAIN m_comments
              /\ m_comments[id] = FetchedTree(id)

\* where a record stands in the result of its segment
PlaceOf(id) ==
    CHOOSE pl \in {<<n, i>> : n \in Producers, i \in 1..(MaxRecords + MaxParents)} :
        pl[2] <= Len(sub_data[pl[1]]) /\ sub_data[pl[1]][pl[2]] = id

\* C16: the key order of the map a segmented get() returns is fixed by the
\* segments' result lists alone: the records of the newest (last) segment
\* first, down to the oldest (first) segment, each segment's records in the
\* order they were fetched, however the segment tasks interleaved.
C16_NewestSegmentFirst ==
    merge_pc = "done" =>
        /\ Range(m_keys) = Parents
        /\ Len(m_keys) = Cardinality(Parents)
        /\ \A a, b \in 1..Len(m_keys) :
              a < b =>
                  LET pa == PlaceOf(m_keys[a])
                      pb == PlaceOf(m_keys[b])
                  IN  pa[1] > pb[1] \/ (pa[1] = pb[1] /\ pa[2] < pb[2])

\* a get() without comment fan-out has returned: the older segment fetched
\* its record after the newer segment had fetched two
C16_Witness ==
    /\ merge_pc = "done"
    /\ ~fanout
    /\ no_segments >= 2
    /\ Len(sub_data[2]) >= 2
    /\ sub_data[1] # <<>>
    /\ sub_data[2][1] < sub_data[1][1]
    /\ sub_data[1][1] < sub_data[2][2]
    /\ m_keys[1] = sub_data[2][1]

\* C17: when a segment task ends with a fatal error, every sibling task that
\* was still running (segment paginators, comment workers, the join task) is
\* cancelled, get() raises and returns no result map.
C17_FatalAbortsGet ==
    \A n \in Producers :
        sub_exc[n] = "Fatal" =>
            /\ sub_pc[n] = "raised"
            /\ main_pc = "raised"
            /\ merge_pc = "none"
            /\ m_keys = <<>>
            /\ \A k \in Producers : sub_pc[k] # "running"
            /\ \A m \in CommentWorkers : cw_pc[m] \notin {"get", "fetch"}
            /\ join_pc \notin {"new", "waiting"}

\* a fatal error in one segment while another segment and a comment worker
\* in the middle of a tree fetch were running: both are cancelled
C17_Witness ==
    /\ \E n \in Producers : sub_exc[n] = "Fatal" /\ sub_pc[n] = "raised"
    /\ \E k \in Producers : sub_pc[k] = "cancelled"
    /\ \E m \in CommentWorkers : cw_pc[m] = "cancelled" /\ cw_id[m] # END
    /\ main_pc = "raised"

\* C18: when one segment's fetch fails with a retryable error on every
\* attempt while the other segments succeed, get() does not raise and
\* returns a map holding every record of every segment, the failed one's
\* accumulated records included.
C18_PartialSegmentKept ==
    \A n \in Producers :
        (sub_exc[n] = "Retryable" /\ \A k \in Producers \ {n} : sub_exc[k] = "none") =>
            /\ main_pc # "raised"
            /\ \A k \in Producers \ {n} : sub_pc[k] # "cancelled"
            /\ merge_pc = "done" => Range(m_keys) = Parents
\* C20: get() takes the segmented path exactly when both after and before
\* are present (after < before, after = 0 included); when either is absent it
\* makes one fetch_once call and builds no segment for a worker task.
C20_SegmentedWhenBothPresent ==
    g_pc # "start" =>
        IF g_after # None /\ g_before # None
        THEN g_pc \in {"build", "segmented"}
        ELSE g_pc \in {"single", "single_done"} /\ segments = <<>>
(***************************************************************************)
(* Claims about the shared cooldown                                        *)
(***************************************************************************)
\* C19: after a worker has received HTTP 429 with reset value R, no worker of
\* the fetch (that one or another) issues a GET before R seconds have passed.
C19_NoGetInCooldown == ~cooled_get
(***************************************************************************)
(* Claims about a get() followed through its segment paginators            *)
(***************************************************************************)
\* C21: a segmented fetch over [after, before] in which no request fails
\* returns a map that holds every provider record whose created_utc lies in
\* [after, before], whatever the worker count, the page size and the
\* distribution of the timestamps.
C21_EveryRecordReturned ==
    g_pc = "returned" => Matching(store, g_after, g_before) \subseteq Range(w_map)
\* C22: a paginator that is cancelled while its loop is running (by an
\* interrupt or by the cancellation of its task) catches the cancellation,
\* returns the records it has accumulated instead of propagating, and leaves
\* its temp file in place.
C22_CancelledReturnsPartial ==
    p_exc \in {"KeyboardInterrupt", "CancelledError"} =>
        (p_pc = "partial" /\ p_file = "open")
(***************************************************************************)
(* Claims about split_range                                                *)
(***************************************************************************)
\* the number of seconds in a range
RangeLength(r) == r[2] - r[1] + 1

C24_CursorStrictlyBackward ==
    \A n \in DOMAIN w_pc :
        (w_pc[n] = "loop" /\ w_req[n] # <<>>) => w_cursor[n] < w_req[n][2]

\* C25: for any finite set of provider records and a provider that answers
\* every request, each paginator that was started eventually returns.
C25_PaginatorTerminates ==
    \A n \in 1..MaxWinWorkers :
        (n \in DOMAIN w_pc /\ w_pc[n] = "new") ~> (n \in DOMAIN w_pc /\ w_pc[n] = "returned")
(***************************************************************************)
(* Claims about the comment workers' queue discipline                      *)
(***************************************************************************)
\* the places of the entries handed out by link_ids.get() so far
TakenPlaces == {taken[i] : i \in 1..Len(taken)}

\* C26: with M comment workers on the shared queue, every entry that has
\* left the queue was handed out exactly once, to one worker; the queue
\* holds exactly the entries put and not yet handed out (none comes back);
\* and the id a worker fetches the tree of is the id of an entry handed out.
C26_EachEntryOnce ==
    /\ \A i, j \in 1..Len(taken) : i # j => taken[i] # taken[j]
    /\ TakenPlaces = 1..(Len(putlog) - Len(link_ids))
    /\ link_ids = SubSeq(putlog, Len(taken) + 1, Len(putlog))
    /\ \A m \in CommentWorkers :
          cw_pc[m] = "fetch" => \E i \in 1..Len(taken) : putlog[taken[i]] = cw_id[m]
    /\ Cardinality({m \in CommentWorkers : cw_pc[m] = "fetch"}) <=
          Cardinality({i \in 1..Len(taken) : putlog[taken[i]] # END})

\* two workers hold a parent id each at the same time, from different places
\* of the queue, and the queue has been drained of parent ids
C26_Witness ==
    /\ no_sub_comment_workers = 2
    /\ cw_pc[1] = "fetch"
    /\ cw_pc[2] = "fetch"
    /\ Len(taken) >= 2
    /\ ~HoldsParentId(link_ids)

\* C27: when the comment-tree fetch for one parent id fails with a retryable
\* error until its retries are exhausted, the worker skips only that id and
\* goes on taking entries, and the fetch as a whole is not aborted.
C27_FailedTreeSkipped ==
    \A m \in CommentWorkers :
        cw_exc[m] = "Retryable" =>
            /\ cw_pc[m] \in {"get", "fetch", "done"}
            /\ main_pc # "raised"
            /\ \A k \in CommentWorkers \ {m} : cw_pc[k] # "cancelled"
\* C28: each segment paginator works on its own settings copy: the after and
\* before a paginator's settings hold are its segment's after and either its
\* segment's before or the cursor it wrote itself, whatever the other
\* paginators have done; and the settings object handed to get() keeps the
\* caller's after and before.
C28_SettingsNotShared ==
    g_pc \in {"scheduled", "returned"} =>
        /\ s_after[0] = g_after
        /\ s_before[0] = g_before
        /\ \A n \in DOMAIN w_pc :
              /\ s_after[w_settings[n]] = segments[n][1]
              /\ s_before[w_settings[n]] =
                    IF w_req[n] = <<>> THEN segments[n][2] ELSE w_req[n][2]
              /\ w_req[n] # <<>> => w_req[n][1] = segments[n][1]

\* two segments: one has moved its cursor below its segment's before and
\* written it to its settings, the other has not started
C28_Witness ==
    /\ g_pc = "scheduled"
    /\ Len(segments) = 2
    /\ \E n, k \in DOMAIN w_pc :
          /\ n # k
          /\ w_pc[k] = "new"
          /\ w_req[n] # <<>>
          /\ s_before[w_settings[n]] < segments[n][2]

\* C29: the rate budget is updated after every completed request: once a
\* caller has received a response, a success or an HTTP 429, limiter.update
\* has been called with that response's header values before the caller's
\* next acquire().
C29_UpdateAfterEveryResponse == \A w \in lskipped : lpc[w] = "idle"

(***************************************************************************)
(* Claims about fetch_once and its retries                                 *)
(***************************************************************************)
\* the attempts have all failed with retryable errors
AllRetryable == \A i \in 1..Len(t_errors) : RetryIf(t_errors[i])

\* the attempts fetch_once makes at the most
AttemptCap(max_retries) == Max(1, max_retries)

\* C30 as stated: fetch_once makes at most max_retries attempts for one
\* page, for every max_retries >= 0; a success returns with no further
\* attempt; attempts that all fail with retryable errors end in RetryError.
C30_AtMostMaxRetries ==
    /\ t_attempts <= t_max_retries
    /\ t_pc = "returned" => t_attempts = Len(t_errors) + 1
    /\ (t_pc \in {"RetryError", "raised"} /\ AllRetryable) => t_pc = "RetryError"

\* C30, amended: fetch_once makes at most max(1, max_retries) attempts for
\* one page, for every max_retries >= 0 (the first attempt is always made);
\* a success on some attempt returns that page with no further attempt; when
\* all attempts fail with retryable errors it has made exactly that many
\* attempts and raises RetryError, not the underlying error.
C30_AtMostMaxAttempts ==
    /\ t_attempts <= AttemptCap(t_max_retries)
    /\ t_pc = "returned" => (AllRetryable /\ t_attempts = Len(t_errors) + 1)
    /\ (t_pc \in {"RetryError", "raised"} /\ AllRetryable) =>
          (t_pc = "RetryError" /\ t_attempts = AttemptCap(t_max_retries))
    /\ t_pc = "RetryError" => (AllRetryable /\ Len(t_errors) = t_attempts)

\* three attempts allowed and made, each failing with a different retryable
\* error: RetryError
C30_Witness ==
    /\ t_max_retries = 3
    /\ t_pc = "RetryError"
    /\ t_attempts = 3
    /\ t_errors[1] # t_errors[2]
    /\ t_errors[2] # t_errors[3]
\* C31: a failure that is not a network error, a timeout or RateLimitRetry
\* is never retried: it is the last thing fetch_once's attempts raised, the
\* attempt that raised it is the last attempt made (one request for it), and
\* fetch_once ends by raising that exception, not RetryError.
C31_OtherFailureNotRetried ==
    /\ \A i \in 1..Len(t_errors) :
          ~(t_errors[i] \in RetryableExceptions) =>
              /\ i = Len(t_errors)
              /\ t_attempts = i
              /\ t_pc = "raised"
    /\ t_pc = "raised" =>
          /\ Len(t_errors) = t_attempts
          /\ ~(t_errors[Len(t_errors)] \in RetryableExceptions)

\* a retried network error, then a failure of another kind on the second of
\* three attempts allowed: raised at once
C31_Witness ==
    /\ t_max_retries = 3
    /\ t_pc = "raised"
    /\ t_attempts = 2
    /\ t_errors = <<"NetworkError", "Fatal">>
\* one pass of acquire()'s gate loop by caller w: it entered acquire(), or
\* its wait returned
GateStep(w) ==
    \/ lpc[w] = "idle" /\ lpc'[w] # "idle"
    \/ lpc[w] = "waiting" /\ (lpc'[w] = "pace" \/ (w \in lnotified /\ ~(w \in lnotified')))

\* update() runs: a 200 reaches its caller
UpdateStep == \E w \in Workers :
    lpc[w] = "inflight" /\ lresp[w].status = 200 /\ lpc'[w] = "idle"

\* C32: once the clock has reached the reset deadline the token count is no
\* longer trusted: every pass of acquire()'s gate at or after the deadline
\* lets its caller through without consuming a token and leaves the count
\* unknown (None), and an unknown count stays unknown until update() runs.
C32_UnknownAfterDeadline ==
    [][/\ \A w \in Workers :
            (GateStep(w) /\ now >= reset_at) =>
                /\ lpc'[w] = "pace"
                /\ ltoken'[w] = None
                /\ tokens' = None
                /\ gate_passed' = 0
       /\ (tokens = None /\ tokens' # None) => UpdateStep]_vars

\* the first call was answered and update() stored a token; the deadline
\* came; the second call then passed the gate holding no token and the
\* count is unknown
C32_Witness ==
    /\ lcalls = 2
    /\ tok_window # None
    /\ now >= reset_at
    /\ tokens = None
    /\ \E w \in Workers :
          /\ lpc[w] = "pace"
          /\ ltoken[w] = None
          /\ \A v \in Workers \ {w} : lpc[v] = "idle"
AliveControllers == {k \in 1..Len(cd_tasks) : cd_tasks[k].pc # "done"}

\* C34: for any interleaving of _start_or_extend_cooldown calls with the
\* _cooldown_controller task, rate_limit_clear is never set while the clock
\* is before _cooldown_until, and a cooldown that is running (the event is
\* cleared) always has a controller that is alive: none is lost.
C34_NoEarlyClear ==
    /\ cd_clear => cd_now >= cd_until
    /\ ~cd_clear => (cd_task # None /\ cd_task \in AliveControllers)

\* the controller's sleep is over, and while it slept the cooldown was
\* extended to a deadline that has not come
C34_Witness ==
    \E k \in AliveControllers :
        /\ cd_tasks[k].pc = "sleeping"
        /\ cd_now >= cd_tasks[k].wake
        /\ cd_tasks[k].wake < cd_until
        /\ cd_now < cd_until
        /\ ~cd_clear

\* C35: after any finite sequence of 429 responses rate_limit_clear is
\* eventually set again, with the clock at or past _cooldown_until, and at
\* no time is more than one _cooldown_controller task alive.
C35_ClearedEventually ==
    /\ [](Cardinality(AliveControllers) <= 1)
    /\ (~cd_clear) ~> (cd_clear /\ cd_now >= cd_until)
    /\ <>[]cd_clear

\* every call was made, two controllers ran one after the other and both
\* are done, and the event is set
C35_Witness ==
    /\ cd_calls = MaxCoolCalls
    /\ Len(cd_tasks) >= 2
    /\ AliveControllers = {}
    /\ cd_clear
    /\ cd_now >= cd_until
    /\ cd_until > 0
\* calls of link_ids.task_done() made so far
TaskDoneCalls == Len(putlog) - unfinished

\* entries a worker has dequeued and is still working on
EntriesInHand == Cardinality({m \in CommentWorkers : cw_pc[m] = "fetch"})

\* C36: task_done() is called exactly once for each entry a comment worker
\* dequeues, on every path: the unfinished count never goes below zero, the
\* calls made are as many as the entries dequeued and no longer in a
\* worker's hand, and join() returns only when no entry is in hand.
C36_TaskDoneOncePerEntry ==
    /\ [](unfinished >= 0)
    /\ [](TaskDoneCalls = Len(taken) - EntriesInHand)
    /\ [][(join_pc # "done" /\ join_pc' = "done") => EntriesInHand' = 0]_vars
\* C37: a segmented get() in which no request fails always terminates: once
\* the workers are scheduled, every segment paginator (the producers of the
\* comment fan-out, whose end the sentinels and the exit of the task group
\* wait for) finishes.
C37_GetTerminates ==
    (g_pc = "scheduled") ~> (\A n \in DOMAIN w_pc : w_pc[n] = "returned")
\* the five policies of duplicate_action
FivePolicies == {"keep_newest", "keep_oldest", "remove", "keep_original", "keep_removed"}

\* C38: under each of the five policies, every value in the map returned by
\* preprocess_json is one of the input records that carries the key's id
\* (never the 'remove' placeholder, never a record of another id), and every
\* record whose id occurs exactly once in the input is in the output as it
\* was in the input.
C38_ValuesAreInputRecords ==
    (d_pc = "returned" /\ d_action \in FivePolicies) =>
        /\ \A k \in DOMAIN d_indexed :
              /\ d_indexed[k] # RemoveFlag
              /\ \E i \in GroupOf(k) : d_indexed[k] = RecordAt(i)
        /\ \A i \in 1..Len(d_obj) :
              Cardinality(GroupOf(RecordAt(i).id)) = 1 =>
                  /\ RecordAt(i).id \in DOMAIN d_indexed
                  /\ d_indexed[RecordAt(i).id] = RecordAt(i)

\* remove on a list of wrapped records with three copies of one id and a
\* single record of another: the single record is the whole output
C38_Witness ==
    /\ d_pc = "returned"
    /\ d_action = "remove"
    /\ Len(d_obj) = MaxLen
    /\ "data" \in DOMAIN d_obj[1]
    /\ \E id \in InputIds : Cardinality(GroupOf(id)) = 3
    /\ \E i \in 1..Len(d_obj) :
          /\ Cardinality(GroupOf(RecordAt(i).id)) = 1
          /\ d_indexed = DictSet(<<>>, RecordAt(i).id, RecordAt(i))
\* C39: for every after < before and every no_workers >= 1, each segment
\* [start, end] built by get() satisfies after <= start <= end <= before,
\* also when before - after is smaller than no_workers.
C39_SegmentsWellFormed ==
    g_pc = "segmented" =>
        \A s \in 1..Len(segments) :
            /\ g_after <= segments[s][1]
            /\ segments[s][1] <= segments[s][2]
            /\ segments[s][2] <= g_before
\* pace.acquire() on pacer k can complete: the bucket of AsyncLimiter(1,
\* period) is empty again (pacer 0 is the permissive first one)
PaceCompletes(k) ==
    IF k = 0 THEN TRUE
    ELSE IF pacers[k].last = None THEN TRUE
    ELSE (now - pacers[k].last) * pacers[k].den >= pacers[k].num

====
